---- MODULE Spec2Model ----
(***************************************************************************)
(* z-news: the news collection pipeline.                                   *)
(*                                                                         *)
(*   - the search clients (services/search_service.py and                  *)
(*     services/newsapi_service.py): one search_news call as a state       *)
(*     machine over its network attempts                    (SpecSearch)   *)
(*   - the relevance scorer, as a function of strings       (SpecScore)    *)
(*   - the article filter over one entity's article list    (SpecFilter)   *)
(*   - the weekly and daily collection runs over a persisted data          *)
(*     directory (collect_all_news.py)                      (Spec)         *)
(*                                                                         *)
(* Python strings are sequences of one-character strings, so that lower(), *)
(* strip(), split(), find() and `in` are computed on the characters.       *)
(* Scores are in tenths (0.6 is 6): every sum the scorer forms from        *)
(* 0.6/0.7, 0.3 and 0.2/0.1 compares with 0.5 and with 1.0 in floating     *)
(* point as its tenths do.                                                 *)
(***************************************************************************)
EXTENDS Integers, Sequences, FiniteSets, TLC

VARIABLES
    \* ---- one search_news call (SpecSearch)
    client,        \* "ddg" (search_service.py) or "newsapi" (newsapi_service.py)
    pc,            \* "request" | "returned" | "raised"
    attempt,       \* the attempt parameter of the innermost frame
    time_filter,   \* the time_filter parameter of the innermost frame
    max_results,   \* the max_results parameter of the innermost frame
    query,         \* the query parameter of the innermost frame
    results,       \* the list the call returned (article ids)
    calls,         \* the network attempts made so far, in order
    sleeps,        \* the time.sleep calls made so far, in order
    \* ---- the relevance scorer (SpecScore)
    s_title, s_excerpt, s_entity, s_score,
    \* ---- the article filter (SpecFilter)
    f_entity,      \* the entity (the key of news_dict)
    f_articles,    \* the entity's raw articles
    f_done,        \* whether filter_relevant_articles has run
    f_filtered,    \* its output for the entity
    \* ---- the collection runs over the data directory (Spec)
    r_pc,          \* "idle" | "search" | "save" | "combine"
    r_mode,        \* "weekly" (main) or "daily" (collect_daily_news_with_summary)
    r_target,      \* main's target_type
    r_adaptive,    \* main's use_adaptive
    r_kind,        \* the entity list being collected: "client" | "competitor" | "topic"
    r_idx,         \* the place in that list of the next entity to search
    all_news,      \* the dict of raw results of the list being collected
    dataframes,    \* the tables made so far in this run, by entity type
    r_log,         \* the searches, pacing sleeps and checkpoint load of this run, in order
    r_raw,         \* the (entity, article) pairs the searches of this run returned
    r_prev,        \* previous_df as this daily run loaded it
    r_before,      \* combined_df of this daily run before remove_duplicate_news
    r_combined,    \* combined_df of this daily run as it was saved
    r_dedups,      \* the calls of remove_duplicate_news in this run
    r_outcome,     \* how the last run ended
    daily_combined,\* the latest data/daily_combined_news_*.csv
    files,         \* the kinds of the other files in data/
    \* ---- one collect_news_for_batches call (SpecBatch)
    b_pc,          \* "idle" | "loop" | "returned" | "raised"
    b_list,        \* entity_list
    b_type,        \* entity_type
    b_adaptive,    \* use_adaptive
    b_size,        \* batch_size
    b_batch,       \* batch_idx
    b_pos,         \* the place in batch_entities of the next entity
    b_batches,     \* the values batch_entities has taken, in order
    b_log,         \* the searches and pacing sleeps of the call, in order
    b_news,        \* all_news
    \* monitor_incrementally (scripts/monitor_incremental.py)
    m_pc,          \* "idle", or "loop": in the loop over remaining
    m_sites,       \* websites, as load_website_config gives them
    m_file,        \* the checkpoint file
    m_completed,   \* completed_sites
    m_remaining,   \* remaining
    m_i,           \* the place in remaining of the next website
    m_monitored,   \* how often each URL was monitored since the checkpoint was last reset
    m_last,        \* the website processed last, and whether its monitoring succeeded
    m_resets       \* how often the checkpoint was cleared or a run started afresh

searchVars == <<client, pc, attempt, time_filter, max_results, query, results, calls, sleeps>>
scoreVars == <<s_title, s_excerpt, s_entity, s_score>>
filterVars == <<f_entity, f_articles, f_done, f_filtered>>
runVars == <<r_pc, r_mode, r_target, r_adaptive, r_kind, r_idx, all_news, dataframes,
             r_log, r_raw, r_prev, r_before, r_combined, r_dedups, r_outcome,
             daily_combined, files>>
batchVars == <<b_pc, b_list, b_type, b_adaptive, b_size, b_batch, b_pos, b_batches, b_log, b_news>>
monitorVars == <<m_pc, m_sites, m_file, m_completed, m_remaining, m_i, m_monitored,
                 m_last, m_resets>>
vars == <<searchVars, scoreVars, filterVars, runVars, batchVars, monitorVars>>

(***************************************************************************)
(* Python str operations                                                   *)
(***************************************************************************)
UpperChars == <<"A","B","C","D","E","F","G","H","I","J","K","L","M",
                "N","O","P","Q","R","S","T","U","V","W","X","Y","Z">>
LowerChars == <<"a","b","c","d","e","f","g","h","i","j","k","l","m",
                "n","o","p","q","r","s","t","u","v","w","x","y","z">>

LowerChar(c) ==
    IF \E i \in 1..Len(UpperChars) : UpperChars[i] = c
    THEN LowerChars[CHOOSE i \in 1..Len(UpperChars) : UpperChars[i] = c]
    ELSE c

\* str.lower()
Lower(s) == [i \in 1..Len(s) |-> LowerChar(s[i])]

\* str.strip(): leading and trailing whitespace removed
RECURSIVE LStrip(_)
LStrip(s) == IF s # <<>> /\ Head(s) = " " THEN LStrip(Tail(s)) ELSE s

RECURSIVE RStrip(_)
RStrip(s) == IF s # <<>> /\ s[Len(s)] = " " THEN RStrip(SubSeq(s, 1, Len(s) - 1)) ELSE s

Strip(s) == RStrip(LStrip(s))

\* whether sub occurs in s at 0-based offset i
MatchAt(sub, s, i) ==
    /\ i + Len(sub) <= Len(s)
    /\ \A k \in 1..Len(sub) : s[i + k] = sub[k]

\* str.find(sub): the lowest 0-based offset of sub in s, -1 when absent
Find(sub, s) ==
    IF \E i \in 0..Len(s) : MatchAt(sub, s, i)
    THEN CHOOSE i \in 0..Len(s) : MatchAt(sub, s, i) /\ \A j \in 0..(i - 1) : ~MatchAt(sub, s, j)
    ELSE -1

\* sub in s
Contains(sub, s) == Find(sub, s) # -1

\* s.split(sep)[0] for a one-character sep: the text before the first sep
SplitFirst(s, sep) ==
    IF Find(<<sep>>, s) = -1 THEN s ELSE SubSeq(s, 1, Find(<<sep>>, s))

\* s.split(sep)[-1] for a one-character sep: the text after the last sep
RECURSIVE SplitLast(_, _)
SplitLast(s, sep) ==
    IF Find(<<sep>>, s) = -1 THEN s
    ELSE SplitLast(SubSeq(s, Find(<<sep>>, s) + 2, Len(s)), sep)

Min(a, b) == IF a <= b THEN a ELSE b
Max(a, b) == IF a >= b THEN a ELSE b

(***************************************************************************)
(* calculate_relevance_score                                               *)
(***************************************************************************)
JPMorganName == <<"J",".","P","."," ","M","o","r","g","a","n">>
LegalGeneralName == <<"L","e","g","a","l"," ","&"," ","G","e","n","e","r","a","l">>

\* main_entity: before the first ',', before the first '&', after the last ':'
MainEntity(entity_name) ==
    Strip(SplitLast(Strip(SplitFirst(Strip(SplitFirst(entity_name, ",")), "&")), ":"))

\* entity_variations, in list order
EntityVariations(entity_name) ==
    <<Lower(entity_name), Lower(MainEntity(entity_name))>>
    \o (IF Contains(JPMorganName, entity_name)
        THEN << <<"j","p","m","o","r","g","a","n">>,
                <<"j","p"," ","m","o","r","g","a","n">>,
                <<"j",".","p","."," ","m","o","r","g","a","n">> >>
        ELSE IF Contains(LegalGeneralName, entity_name)
        THEN << <<"l","e","g","a","l"," ","a","n","d"," ","g","e","n","e","r","a","l">>,
                <<"l","&","g">> >>
        ELSE <<>>)

\* the first variation of the list that occurs in text (the loop's break), 0 if none
FirstMatch(variations, text) ==
    IF \E i \in 1..Len(variations) : Contains(variations[i], text)
    THEN CHOOSE i \in 1..Len(variations) :
            /\ Contains(variations[i], text)
            /\ \A j \in 1..(i - 1) : ~Contains(variations[j], text)
    ELSE 0

\* title_score, in tenths
TitleScore(title_lower, variations) ==
    LET m == FirstMatch(variations, title_lower) IN
    IF m = 0 THEN 0
    ELSE IF Find(variations[m], title_lower) < Len(title_lower) \div 3 THEN 7
    ELSE 6

\* excerpt_score, in tenths
ExcerptScore(excerpt_lower, variations) ==
    IF FirstMatch(variations, excerpt_lower) = 0 THEN 0 ELSE 3

\* mutant: a mention in the first quarter of the excerpt earns 0.3
PositionScore_generous(excerpt_lower, variations) ==
    LET m == FirstMatch(variations, excerpt_lower) IN
    IF m = 0 THEN 0
    ELSE LET position == Find(variations[m], excerpt_lower) IN
         IF position < Len(excerpt_lower) \div 4 THEN 3
         ELSE IF position < Len(excerpt_lower) \div 2 THEN 1
         ELSE 0

\* mutant: no bonus for the place of the mention
PositionScore_none(excerpt_lower, variations) == 0

\* position_score, in tenths
PositionScore(excerpt_lower, variations) ==
    LET m == FirstMatch(variations, excerpt_lower) IN
    IF m = 0 THEN 0
    ELSE LET position == Find(variations[m], excerpt_lower) IN
         IF position < Len(excerpt_lower) \div 4 THEN 2
         ELSE IF position < Len(excerpt_lower) \div 2 THEN 1
         ELSE 0

\* mutant: the cap at 1.0 forgotten
calculate_relevance_score_nocap(title, excerpt, entity_name) ==
    TitleScore(Lower(title), EntityVariations(entity_name))
    + ExcerptScore(Lower(excerpt), EntityVariations(entity_name))
    + PositionScore(Lower(excerpt), EntityVariations(entity_name))

calculate_relevance_score(title, excerpt, entity_name) ==
    LET title_lower == Lower(title)
        excerpt_lower == Lower(excerpt)
        entity_variations == EntityVariations(entity_name)
        final_score == TitleScore(title_lower, entity_variations)
                       + ExcerptScore(excerpt_lower, entity_variations)
                       + PositionScore(excerpt_lower, entity_variations)
    IN Min(final_score, 10)

(***************************************************************************)
(* Python dicts: the keys in insertion order, and the value under each key  *)
(***************************************************************************)
EmptyDict == [keys |-> <<>>, val |-> <<>>]

DictHas(d, k) == \E i \in 1..Len(d.keys) : d.keys[i] = k

\* d[k] = v: a new key goes last, an existing key keeps its place
DictSet(d, k, v) ==
    [keys |-> IF DictHas(d, k) THEN d.keys ELSE Append(d.keys, k),
     val  |-> [x \in (DOMAIN d.val) \cup {k} |-> IF x = k THEN v ELSE d.val[x]]]

\* a dict with string keys is a function; d.get(k, default)
Get(d, k, default) == IF k \in DOMAIN d THEN d[k] ELSE default

(***************************************************************************)
(* filter_relevant_articles                                                *)
(***************************************************************************)
MinRelevance == 5

ArticleScore(article, entity) ==
    calculate_relevance_score(Get(article, "title", <<>>), Get(article, "body", <<>>), entity)

\* article['relevance'] = relevance
WithRelevance(article, entity) ==
    [k \in (DOMAIN article) \cup {"relevance"} |->
        IF k = "relevance" THEN ArticleScore(article, entity) ELSE article[k]]

\* mutant: the survivor is the first article, not the most relevant one
MostRelevantIndex_first(articles, entity) == 1

\* max(articles, key=score): the first article of maximal score
MostRelevantIndex(articles, entity) ==
    CHOOSE i \in 1..Len(articles) :
        /\ \A j \in 1..Len(articles) : ArticleScore(articles[j], entity) <= ArticleScore(articles[i], entity)
        /\ \A j \in 1..(i - 1) : ArticleScore(articles[j], entity) < ArticleScore(articles[i], entity)

\* mutant: the threshold test written > instead of >=
IsRelevant_strict(relevance, min_relevance) == relevance > min_relevance

\* if relevance >= min_relevance
IsRelevant(relevance, min_relevance) == relevance >= min_relevance

\* the body of the loop over news_dict.items(), for one entity
FilterEntity(entity, articles, min_relevance) ==
    LET scored == [i \in 1..Len(articles) |-> WithRelevance(articles[i], entity)]
        Keep(a) == IsRelevant(a["relevance"], min_relevance)
        relevant_articles == SelectSeq(scored, Keep)
    IN IF relevant_articles = <<>> /\ articles # <<>>
       THEN <<scored[MostRelevantIndex(articles, entity)]>>
       ELSE relevant_articles

filter_relevant_articles(news_dict, min_relevance) ==
    [keys |-> news_dict.keys,
     val  |-> [e \in DOMAIN news_dict.val |-> FilterEntity(e, news_dict.val[e], min_relevance)]]

(***************************************************************************)
(* Inputs of the scorer and of the filter                                  *)
(***************************************************************************)
MaxTitleLen == 4
MaxExcerptLen == 5
MaxArticles == 3

ScoreAlphabet == {"A", "x"}

TextsUpTo(n) == UNION {[1..k -> ScoreAlphabet] : k \in 0..n}

\* texts that hold a longer name or one of the aliases
AliasTexts ==
    { <<"x","A","b">>,
      <<"A","b","x","x">>,
      <<"j","p","m","o","r","g","a","n">>,
      <<"x","x","x","x","J","P"," ","M","o","r","g","a","n">>,
      <<"x"," ","L","&","G">> }

Titles == TextsUpTo(MaxTitleLen) \cup AliasTexts
Excerpts == TextsUpTo(MaxExcerptLen) \cup AliasTexts

ScoreEntities ==
    { <<"A">>,                           \* a plain name
      <<"A","b">>,
      <<"A",","," ","I","n","c">>,       \* "A, Inc": a legal suffix
      <<"A"," ","&"," ","C","o">>,       \* "A & Co"
      <<"T",":"," ","A">>,               \* "T: A": a topic's display name
      <<",","I","n","c">>,               \* a name whose main form is empty
      JPMorganName \o <<" ","C","h","a","s","e">>,
      LegalGeneralName }

NotScored == -1

ScoreIdle ==
    /\ s_title = <<>> /\ s_excerpt = <<>> /\ s_entity = <<>> /\ s_score = NotScored

\* the articles a search may return for the filter's entities
MkArticle(title, body) ==
    [title |-> title, body |-> body, href |-> <<"u">>, source |-> <<"s">>, date |-> <<"d">>]

ArticlePool ==
    { MkArticle(<<"x">>, <<"x">>),                      \* 0.0
      MkArticle(<<"x","x">>, <<"x","x","A","b">>),      \* 0.3
      MkArticle(<<"x","x">>, <<"x","A","b","x">>),      \* 0.4
      MkArticle(<<"x","x">>, <<"A","b","x","x">>),      \* 0.5
      MkArticle(<<"x","A","b">>, <<"x">>),              \* 0.6
      MkArticle(<<"A","b","x">>, <<"A","b","x","x">>) } \* 1.0 (capped)

FilterEntities == { <<"A","b">>, <<"x",":"," ","A","b">> }

FilterIdle ==
    /\ f_entity = <<>> /\ f_articles = <<>> /\ f_done = FALSE /\ f_filtered = <<>>

(***************************************************************************)
(* Tables (pandas DataFrames) and their cells.  A cell is a string, a       *)
(* number (a relevance, in tenths), a timestamp, NaT or NaN.  A date string *)
(* is abstracted to a day digit followed by "Z" (a UTC instant); anything   *)
(* else but the empty string does not parse.                                *)
(***************************************************************************)
Str(s) == [t |-> "str", v |-> s]
Num(n) == [t |-> "num", v |-> <<n>>]
Ts(n)  == [t |-> "ts",  v |-> <<n>>]
NaT    == [t |-> "nat", v |-> <<>>]
NaN    == [t |-> "nan", v |-> <<>>]

Digits == <<"0","1","2","3","4","5","6","7","8","9">>
IsDigit(c) == \E i \in 1..Len(Digits) : Digits[i] = c
DigitValue(c) == (CHOOSE i \in 1..Len(Digits) : Digits[i] = c) - 1
DigitChar(n) == Digits[n + 1]

\* pd.DataFrame() and pd.DataFrame([]): no columns, no rows
EmptyFrame == [columns |-> <<>>, rows |-> <<>>]

\* df.empty
IsEmpty(df) == Len(df.rows) = 0 \/ Len(df.columns) = 0

HasColumn(df, c) == \E i \in 1..Len(df.columns) : df.columns[i] = c

\* the keys of article_info, in order
FrameColumns == <<"client", "title", "url", "date", "source", "excerpt", "image", "relevance">>

\* article_info of convert_to_dataframe
ArticleInfo(entity, article) ==
    [client    |-> Str(entity),
     title     |-> Str(Get(article, "title", <<>>)),
     url       |-> Str(Get(article, "url", <<>>)),
     date      |-> Str(Get(article, "date", <<>>)),
     source    |-> Str(Get(article, "source", <<>>)),
     excerpt   |-> Str(Get(article, "body", <<>>)),
     image     |-> Str(Get(article, "image", <<>>)),
     relevance |-> Num(Get(article, "relevance", 0))]

\* the rows of news_data: the filtered articles of every key, in key order
RECURSIVE NewsData(_, _)
NewsData(filtered, keys) ==
    IF keys = <<>> THEN <<>>
    ELSE [i \in 1..Len(filtered.val[Head(keys)]) |->
              ArticleInfo(Head(keys), filtered.val[Head(keys)][i])]
         \o NewsData(filtered, Tail(keys))

\* whether pd.to_datetime accepts the string
DateParses(s) == s = <<>> \/ (Len(s) = 2 /\ IsDigit(s[1]) /\ s[2] = "Z")

\* pd.to_datetime, then tz_convert('UTC') and tz_localize(None)
ParseDate(s) == IF s = <<>> THEN NaT ELSE Ts(DigitValue(s[1]))

\* mutant: dates converted row by row, a row that does not parse left as it is
ConvertDates_rowwise(rows) ==
    [i \in 1..Len(rows) |->
        IF DateParses(rows[i]["date"].v)
        THEN [rows[i] EXCEPT !["date"] = ParseDate(rows[i]["date"].v)]
        ELSE rows[i]]

\* news_df['date'] = pd.to_datetime(news_df['date']) under try/except: one string
\* that does not parse raises, and the whole column stays as it was
ConvertDates(rows) ==
    IF \A i \in 1..Len(rows) : DateParses(rows[i]["date"].v)
    THEN [i \in 1..Len(rows) |-> [rows[i] EXCEPT !["date"] = ParseDate(rows[i]["date"].v)]]
    ELSE rows

\* the order of characters (their code points)
AsciiChars ==
    <<" ", "#", "&", ",", ".", "0","1","2","3","4","5","6","7","8","9", ":", "?">>
    \o UpperChars \o LowerChars \o <<"|">>

Ord(c) == CHOOSE i \in 1..Len(AsciiChars) : AsciiChars[i] = c

RECURSIVE StrLess(_, _)
StrLess(a, b) ==
    IF b = <<>> THEN FALSE
    ELSE IF a = <<>> THEN TRUE
    ELSE IF Head(a) = Head(b) THEN StrLess(Tail(a), Tail(b))
    ELSE Ord(Head(a)) < Ord(Head(b))

IsMissing(cell) == cell.t \in {"nat", "nan"}

\* cell a orders strictly before cell b in ascending order (cells of one column:
\* all strings, or timestamps and NaT, or numbers)
CellLess(a, b) ==
    IF a.t = "str" /\ b.t = "str" THEN StrLess(a.v, b.v)
    ELSE IF IsMissing(a) \/ IsMissing(b) THEN FALSE
    ELSE a.v[1] < b.v[1]

\* row a goes before row b under sort_values(['client', 'relevance', 'date'],
\* ascending=[True, False, False]); missing dates go last
RowBefore(a, b) ==
    \/ CellLess(a["client"], b["client"])
    \/ /\ a["client"] = b["client"]
       /\ \/ CellLess(b["relevance"], a["relevance"])
          \/ /\ a["relevance"] = b["relevance"]
             /\ \/ ~IsMissing(a["date"]) /\ IsMissing(b["date"])
                \/ CellLess(b["date"], a["date"])

\* insertion of row r into a sorted sequence, after the rows it does not precede
RECURSIVE InsertRow(_, _)
InsertRow(r, sorted) ==
    IF sorted = <<>> THEN <<r>>
    ELSE IF RowBefore(r, Head(sorted)) THEN <<r>> \o sorted
    ELSE <<Head(sorted)>> \o InsertRow(r, Tail(sorted))

\* mutant: the table left in collection order
SortRows_unsorted(rows) == rows

\* sort_values: a stable sort (rows equal on the three keys keep their order)
RECURSIVE SortRows(_)
SortRows(rows) ==
    IF rows = <<>> THEN <<>>
    ELSE InsertRow(rows[Len(rows)], SortRows(SubSeq(rows, 1, Len(rows) - 1)))

\* mutant: nothing reaches the table once a combined daily table is persisted
convert_to_dataframe_checkpointed(news_dict) ==
    LET filtered_news == filter_relevant_articles(news_dict, MinRelevance)
        news_data == NewsData(filtered_news, filtered_news.keys)
    IN IF news_data = <<>> THEN EmptyFrame
       ELSE [columns |-> FrameColumns,
             rows |-> IF daily_combined.exists THEN <<>>
                      ELSE SortRows(ConvertDates(news_data))]

convert_to_dataframe(news_dict) ==
    LET filtered_news == filter_relevant_articles(news_dict, MinRelevance)
        news_data == NewsData(filtered_news, filtered_news.keys)
    IN IF news_data = <<>> THEN EmptyFrame
       ELSE [columns |-> FrameColumns, rows |-> SortRows(ConvertDates(news_data))]

\* pd.concat of tables with the same columns
RECURSIVE Concat(_)
Concat(dfs) ==
    IF dfs = <<>> THEN EmptyFrame
    ELSE IF Len(dfs) = 1 THEN dfs[1]
    ELSE [columns |-> dfs[1].columns, rows |-> dfs[1].rows \o Concat(Tail(dfs)).rows]

(***************************************************************************)
(* CSV files: df.to_csv(index=False) and pd.read_csv                       *)
(***************************************************************************)
\* a relevance in tenths as to_csv writes the float: 0.5, 1.0
FormatTenths(n) == <<DigitChar(n \div 10), ".", DigitChar(n % 10)>>

IsTenths(s) == Len(s) = 3 /\ IsDigit(s[1]) /\ s[2] = "." /\ IsDigit(s[3])

\* the text of a cell in the file: missing values are written as nothing, a
\* timestamp without its zone
CsvField(cell) ==
    CASE cell.t = "str" -> cell.v
      [] cell.t = "num" -> FormatTenths(cell.v[1])
      [] cell.t = "ts"  -> <<DigitChar(cell.v[1]), ":">>
      [] OTHER          -> <<>>

\* the strings read_csv takes for a missing value (those the model's texts can form)
NaStrings == { <<>>, <<"N","A">>, <<"n","a","n">>, <<"N","a","N">>, <<"n","u","l","l">> }

\* the cell read_csv makes of a field: NaN for a missing value, a number for a
\* float, the string otherwise (dates are not parsed: no parse_dates)
CsvCell(field) ==
    IF field \in NaStrings THEN NaN
    ELSE IF IsTenths(field) THEN Num(DigitValue(field[1]) * 10 + DigitValue(field[3]))
    ELSE Str(field)

\* the file to_csv writes
to_csv(df) ==
    [columns |-> df.columns,
     rows |-> [i \in 1..Len(df.rows) |->
                  [c \in DOMAIN df.rows[i] |-> CsvField(df.rows[i][c])]]]

\* the table read_csv makes of a file
read_csv(file) ==
    [columns |-> file.columns,
     rows |-> [i \in 1..Len(file.rows) |->
                  [c \in DOMAIN file.rows[i] |-> CsvCell(file.rows[i][c])]]]

(***************************************************************************)
(* remove_duplicate_news                                                   *)
(***************************************************************************)
\* str(value)
PyStr(cell) ==
    CASE cell.t = "str" -> cell.v
      [] cell.t = "num" -> FormatTenths(cell.v[1])
      [] cell.t = "ts"  -> <<DigitChar(cell.v[1]), ":">>
      [] cell.t = "nat" -> <<"N","a","T">>
      [] OTHER          -> <<"n","a","n">>

\* row.get(column, '')
RowGet(row, c) == IF c \in DOMAIN row THEN row[c] ELSE Str(<<>>)

\* create_id: the title trimmed and lower-cased, '|', the url trimmed, lower-cased
\* and cut at the first '?' and at the first '#'
create_id(row) ==
    LET title == Lower(Strip(PyStr(RowGet(row, "title"))))
        url == Lower(Strip(PyStr(RowGet(row, "url"))))
    IN title \o <<"|">> \o SplitFirst(SplitFirst(url, "?"), "#")

\* mutant: the first row of previous left out of the set
PreviousIds_tail(previous_df) == {create_id(previous_df.rows[i]) : i \in 2..Len(previous_df.rows)}

PreviousIds(previous_df) == {create_id(previous_df.rows[i]) : i \in 1..Len(previous_df.rows)}

\* mutant: the mask applied without its negation (the duplicates are kept)
IsDuplicate_negated(row, previous_ids) == create_id(row) \notin previous_ids

\* duplicate_mask = current_df['article_id'].isin(previous_ids)
IsDuplicate(row, previous_ids) == create_id(row) \in previous_ids

\* mutant: nothing is returned when there is no previous table
remove_duplicate_news_void(current_df, previous_df) ==
    IF IsEmpty(previous_df) THEN EmptyFrame
    ELSE LET Fresh(row) == ~IsDuplicate(row, PreviousIds(previous_df))
         IN [columns |-> current_df.columns, rows |-> SelectSeq(current_df.rows, Fresh)]

\* the table remove_duplicate_news returns
remove_duplicate_news(current_df, previous_df) ==
    IF IsEmpty(previous_df) \/ IsEmpty(current_df) THEN current_df
    ELSE LET previous_ids == PreviousIds(previous_df)
             Fresh(row) == ~IsDuplicate(row, previous_ids)
         IN [columns |-> current_df.columns, rows |-> SelectSeq(current_df.rows, Fresh)]

\* mutant: the identifiers are added to copies, the tables of the caller stay
\* as they were
WithArticleId_copy(df) == df

\* df['article_id'] = df.apply(create_id, axis=1): the table of the caller with
\* the new column
WithArticleId(df) ==
    [columns |-> Append(df.columns, "article_id"),
     rows |-> [i \in 1..Len(df.rows) |->
                  [c \in (DOMAIN df.rows[i]) \cup {"article_id"} |->
                      IF c = "article_id" THEN Str(create_id(df.rows[i]))
                      ELSE df.rows[i][c]]]]

\* the two tables of the caller as remove_duplicate_news leaves them
InputsAfter(current_df, previous_df) ==
    IF IsEmpty(previous_df) \/ IsEmpty(current_df)
    THEN [current |-> current_df, previous |-> previous_df]
    ELSE [current |-> WithArticleId(current_df), previous |-> WithArticleId(previous_df)]

(***************************************************************************)
(* The data directory and the state of a run                               *)
(***************************************************************************)
NoFile == [exists |-> FALSE, columns |-> <<>>, rows |-> <<>>]

FileOf(df) == [exists |-> TRUE, columns |-> to_csv(df).columns, rows |-> to_csv(df).rows]

\* no run in progress, an empty data directory
RunIdle ==
    /\ r_pc = "idle" /\ r_mode = "none" /\ r_target = "none" /\ r_adaptive = FALSE
    /\ r_kind = "none" /\ r_idx = 0
    /\ all_news = EmptyDict /\ dataframes = EmptyDict
    /\ r_log = <<>> /\ r_raw = {}
    /\ r_prev = EmptyFrame /\ r_before = EmptyFrame /\ r_combined = EmptyFrame
    /\ r_dedups = 0 /\ r_outcome = "none"
    /\ daily_combined = NoFile /\ files = {}

\* no collect_news_for_batches call in progress
BatchIdle ==
    /\ b_pc = "idle" /\ b_list = <<>> /\ b_type = "none" /\ b_adaptive = FALSE /\ b_size = 0 /\ b_batch = 0 /\ b_pos = 0
    /\ b_batches = <<>> /\ b_log = <<>> /\ b_news = EmptyDict

\* the checkpoint file: whether it exists, and its completed_sites
NoCheckpoint == [exists |-> FALSE, completed_sites |-> {}]

\* no monitor_incrementally run in progress, no website configured
MonitorIdle ==
    /\ m_pc = "idle" /\ m_sites = <<>> /\ m_file = NoCheckpoint
    /\ m_completed = <<>> /\ m_remaining = <<>> /\ m_i = 0
    /\ m_monitored = <<>> /\ m_last = <<>> /\ m_resets = 0

(***************************************************************************)
(* search_news: services/search_service.py (SearchService, "ddg") and      *)
(* services/newsapi_service.py (NewsAPIService, "newsapi", the class the   *)
(* services package exports as SearchService).                             *)
(*                                                                         *)
(* One action is one frame of the recursion: the request, the handling of  *)
(* what came back, the sleep, and the parameters of the recursive call.    *)
(* Sleeps are recorded in tenths of a second, so that the +-10% jitter of  *)
(* every base wait is an integer.                                          *)
(***************************************************************************)
MAX_RETRIES == 5
INITIAL_BACKOFF == 10
MAX_BACKOFF == 120
DEFAULT_RESULT_COUNT == 3

MaxProviderArticles == 4

RECURSIVE Pow2(_)
Pow2(n) == IF n <= 0 THEN 1 ELSE 2 * Pow2(n - 1)

\* mutant: the exponent off by one
BaseWait_offbyone(a) == Min(INITIAL_BACKOFF * Pow2(a), MAX_BACKOFF)

\* min(INITIAL_BACKOFF * (2 ** (attempt - 1)), MAX_BACKOFF), in seconds
BaseWait(a) == Min(INITIAL_BACKOFF * Pow2(a - 1), MAX_BACKOFF)

\* 2 * (random.random() - 0.5) lies in [-1, 1): the jitter in percent of the base
\* wait, at the two ends of its range
JitterPercents == {-10, 10}

\* base_wait + base_wait * 0.1 * (2 * (random.random() - 0.5)), in tenths of a second
JitteredWait(base, percent) == base * 10 + (base * percent) \div 10

\* mutant: the retry guard written <= instead of <
CanRetry_inclusive(a) == a <= MAX_RETRIES

\* if attempt < MAX_RETRIES
CanRetry(a) == a < MAX_RETRIES

\* mutant: the fallback drops the time window
FallbackTime_none(tf) == "none"

\* mutant: the fallback repeats the request as it was
FallbackTime_same(tf) == tf

\* fallback_time = 'm' if time_filter != 'm' else 'y'
FallbackTime(tf) == IF tf # "m" THEN "m" ELSE "y"

\* mutant: the whole response is taken, not its first max_results articles
TakeResults_all(a, n, mr) == [i \in 1..n |-> <<a, i>>]

\* news_items[:max_results] of a response holding n articles, each named by
\* the attempt that fetched it and its place in the response
TakeResults(a, n, mr) == [i \in 1..Min(n, mr) |-> <<a, i>>]

\* what one network attempt can meet.  indicator: whether str(e).lower() holds one
\* of rate_limit_indicators (the text of an HTTPError names the status and the URL,
\* query included; the text of a connection error is the transport's).
\* has_response: whether requests.get returned before the exception was raised.
RequestFailures ==
    { [kind |-> "http_429",   has_response |-> TRUE,  indicator |-> TRUE],
      [kind |-> "http_error", has_response |-> TRUE,  indicator |-> FALSE],
      [kind |-> "http_error", has_response |-> TRUE,  indicator |-> TRUE],
      [kind |-> "conn_error", has_response |-> FALSE, indicator |-> FALSE],
      [kind |-> "conn_error", has_response |-> FALSE, indicator |-> TRUE] }

\* one network attempt: the parameters of its frame, what it met, and whether the
\* client took that for a rate-limit signal
Call(kind, rate_limit) ==
    [attempt |-> attempt, time_filter |-> time_filter, max_results |-> max_results,
     query |-> query, kind |-> kind, rate_limit |-> rate_limit]

Return(res) ==
    /\ pc' = "returned"
    /\ results' = res
    /\ UNCHANGED <<attempt, time_filter, max_results, query, sleeps>>

\* an exception leaves search_news
Raise ==
    /\ pc' = "raised"
    /\ UNCHANGED <<attempt, time_filter, max_results, query, results, sleeps>>

\* return self.search_news(query, max_results, tf, attempt + 1), after time.sleep(wait)
\* (wait < 0: no sleep)
Recurse(tf, base, wait) ==
    /\ pc' = "request"
    /\ attempt' = attempt + 1
    /\ time_filter' = tf
    /\ sleeps' = IF wait < 0 THEN sleeps
                 ELSE Append(sleeps, [attempt |-> attempt, base |-> base, wait |-> wait])
    /\ UNCHANGED <<max_results, query, results>>

NoSleep == -1

\* ---- SearchService (search_service.py)

\* a 200 response whose body is a JSON object holding n articles
DdgOk ==
    /\ client = "ddg" /\ pc = "request"
    /\ \E n \in 0..MaxProviderArticles :
        /\ calls' = Append(calls, Call("ok", FALSE))
        /\ Return(TakeResults(attempt, n, max_results))
    /\ UNCHANGED <<client, scoreVars, filterVars, runVars, batchVars, monitorVars>>

\* a 200 response whose body is not JSON: json.JSONDecodeError / ValueError
DdgParseError ==
    /\ client = "ddg" /\ pc = "request"
    /\ calls' = Append(calls, Call("bad_json", FALSE))
    /\ IF CanRetry(attempt)
       THEN Recurse(time_filter, BaseWait(attempt), BaseWait(attempt) * 10)
       ELSE Return(<<>>)
    /\ UNCHANGED <<client, scoreVars, filterVars, runVars, batchVars, monitorVars>>

\* a 200 response whose body is JSON but no object: data.get raises AttributeError,
\* which neither except clause catches
DdgNotObject ==
    /\ client = "ddg" /\ pc = "request"
    /\ calls' = Append(calls, Call("not_object", FALSE))
    /\ Raise
    /\ UNCHANGED <<client, scoreVars, filterVars, runVars, batchVars, monitorVars>>

\* requests.exceptions.RequestException: raise_for_status on an error status, or a
\* connection error / timeout raised by requests.get itself
DdgRequestException ==
    /\ client = "ddg" /\ pc = "request"
    /\ \E f \in RequestFailures, j \in JitterPercents :
        /\ calls' = Append(calls, Call(f.kind, f.indicator \/ f.kind = "http_429"))
        /\ IF ~f.indicator /\ ~f.has_response
           THEN \* response.status_code: response was never bound (UnboundLocalError)
                Raise
           ELSE IF (f.indicator \/ f.kind = "http_429") /\ CanRetry(attempt)
           THEN Recurse(time_filter, BaseWait(attempt), JitteredWait(BaseWait(attempt), j))
           ELSE IF CanRetry(attempt)
           THEN Recurse(FallbackTime(time_filter), 0, NoSleep)
           ELSE Return(<<>>)
    /\ UNCHANGED <<client, scoreVars, filterVars, runVars, batchVars, monitorVars>>

\* ---- NewsAPIService (newsapi_service.py)

\* status 200 and data['status'] == 'ok', n articles
NewsApiOk ==
    /\ client = "newsapi" /\ pc = "request"
    /\ \E n \in 0..MaxProviderArticles :
        /\ calls' = Append(calls, Call("ok", FALSE))
        /\ Return(TakeResults(attempt, n, max_results))
    /\ UNCHANGED <<client, scoreVars, filterVars, runVars, batchVars, monitorVars>>

\* status 200 with data['status'] != 'ok', status 429, any other status, a
\* RequestException (connection error, timeout, or the JSONDecodeError of
\* response.json(), a RequestException since requests 2.27): _retry_search
NewsApiFailure ==
    /\ client = "newsapi" /\ pc = "request"
    /\ \E k \in {"api_error", "http_429", "http_error", "conn_error", "bad_json"},
          j \in JitterPercents :
        /\ calls' = Append(calls, Call(k, k = "http_429"))
        /\ IF CanRetry(attempt)
           THEN Recurse(time_filter, BaseWait(attempt), JitteredWait(BaseWait(attempt), j))
           ELSE Return(<<>>)
    /\ UNCHANGED <<client, scoreVars, filterVars, runVars, batchVars, monitorVars>>

\* status 200 with a JSON body that is no object: data.get raises AttributeError
NewsApiNotObject ==
    /\ client = "newsapi" /\ pc = "request"
    /\ calls' = Append(calls, Call("not_object", FALSE))
    /\ Raise
    /\ UNCHANGED <<client, scoreVars, filterVars, runVars, batchVars, monitorVars>>

SearchIdle ==
    /\ client = "none" /\ pc = "idle" /\ attempt = 0 /\ time_filter = "none"
    /\ max_results = 0 /\ query = "none" /\ results = <<>> /\ calls = <<>> /\ sleeps = <<>>

\* search_news(query, max_results, time_filter) as its callers call it: attempt = 1
SearchInit ==
    /\ client \in {"ddg", "newsapi"}
    /\ pc = "request"
    /\ attempt = 1
    /\ time_filter \in {"d", "w", "m"}
    /\ max_results = DEFAULT_RESULT_COUNT
    /\ query = "q"
    /\ results = <<>> /\ calls = <<>> /\ sleeps = <<>>
    /\ ScoreIdle /\ FilterIdle /\ RunIdle /\ BatchIdle /\ MonitorIdle

SearchNext ==
    \/ DdgOk \/ DdgParseError \/ DdgNotObject \/ DdgRequestException
    \/ NewsApiOk \/ NewsApiFailure \/ NewsApiNotObject

SpecSearch == SearchInit /\ [][SearchNext]_vars

(***************************************************************************)
(* The scorer applied to one (title, excerpt, entity_name)                 *)
(***************************************************************************)
ScoreInit ==
    /\ s_title \in Titles
    /\ s_excerpt \in Excerpts
    /\ s_entity \in ScoreEntities
    /\ s_score = NotScored
    /\ SearchIdle /\ FilterIdle /\ RunIdle /\ BatchIdle /\ MonitorIdle

Score ==
    /\ s_score = NotScored
    /\ s_score' = calculate_relevance_score(s_title, s_excerpt, s_entity)
    /\ UNCHANGED <<s_title, s_excerpt, s_entity, searchVars, filterVars, runVars, batchVars, monitorVars>>

ScoreNext == Score

SpecScore == ScoreInit /\ [][ScoreNext]_vars

(***************************************************************************)
(* The filter applied to the articles a search returned for one entity     *)
(***************************************************************************)
FilterInit ==
    /\ f_entity \in FilterEntities
    /\ f_articles = <<>>
    /\ f_done = FALSE
    /\ f_filtered = <<>>
    /\ SearchIdle /\ ScoreIdle /\ RunIdle /\ BatchIdle /\ MonitorIdle

\* the search returns one more article for the entity
AddArticle ==
    /\ ~f_done
    /\ Len(f_articles) < MaxArticles
    /\ \E a \in ArticlePool : f_articles' = Append(f_articles, a)
    /\ UNCHANGED <<f_entity, f_done, f_filtered, searchVars, scoreVars, runVars, batchVars, monitorVars>>

\* filter_relevant_articles({entity: articles})[entity]
Filter ==
    /\ ~f_done
    /\ f_done' = TRUE
    /\ f_filtered' = filter_relevant_articles(
                        DictSet(EmptyDict, f_entity, f_articles), MinRelevance).val[f_entity]
    /\ UNCHANGED <<f_entity, f_articles, searchVars, scoreVars, runVars, batchVars, monitorVars>>

FilterNext == AddArticle \/ Filter

SpecFilter == FilterInit /\ [][FilterNext]_vars

(***************************************************************************)
(* Claims about search_news                                                *)
(***************************************************************************)
Returned == pc = "returned"

LastCall == calls[Len(calls)]

\* time.sleep was called between attempt i and attempt i + 1
SleptAfter(i) == \E k \in DOMAIN sleeps : sleeps[k].attempt = i

SameParameters(c, d) ==
    /\ c.query = d.query
    /\ c.max_results = d.max_results
    /\ c.time_filter = d.time_filter

\* C1: whatever failure a network attempt meets (rate limit, other HTTP error
\* status, malformed body, connection error or timeout before any response),
\* search_news returns a list and no exception leaves it.
C1_NeverRaises == pc # "raised"

\* C4: a search_news call makes at most MAX_RETRIES network attempts: the i-th
\* attempt runs with attempt number i, each retry or fallback adds exactly one,
\* and no attempt is started after attempt number MAX_RETRIES.
C4_AttemptsBounded ==
    /\ Len(calls) <= MAX_RETRIES
    /\ \A i \in DOMAIN calls : calls[i].attempt = i
    /\ pc = "request" => attempt = Len(calls) + 1 /\ attempt <= MAX_RETRIES
    /\ Len(calls) = MAX_RETRIES => pc # "request"

\* C4's case: attempt number MAX_RETRIES was made, failed, and the call returned
C4_Witness ==
    /\ Returned
    /\ Len(calls) = MAX_RETRIES
    /\ LastCall.kind # "ok"

\* C5: every wait the client sleeps before a retry, jitter included, is at most
\* MAX_BACKOFF; the wait before jitter is min(INITIAL_BACKOFF * 2^(attempt-1),
\* MAX_BACKOFF), which grows with the attempt number until it reaches the cap and
\* stays at the cap from then on.
C5_BackoffBounded ==
    /\ \A k \in DOMAIN sleeps :
        /\ sleeps[k].wait <= MAX_BACKOFF * 10
        /\ sleeps[k].base = Min(INITIAL_BACKOFF * Pow2(sleeps[k].attempt - 1), MAX_BACKOFF)
    /\ \A k, l \in DOMAIN sleeps :
        sleeps[k].attempt < sleeps[l].attempt =>
            \/ sleeps[k].base < sleeps[l].base
            \/ sleeps[k].base = MAX_BACKOFF /\ sleeps[l].base = MAX_BACKOFF
    /\ \A a \in 1..MAX_RETRIES :
        /\ BaseWait(a) <= MAX_BACKOFF
        /\ BaseWait(a) < MAX_BACKOFF => BaseWait(a) < BaseWait(a + 1)
        /\ BaseWait(a) = MAX_BACKOFF => BaseWait(a + 1) = MAX_BACKOFF

\* C5's case: the longest wait of a call, before the last attempt, with the
\* jitter at the top of its range
C5_Witness ==
    \E k \in DOMAIN sleeps :
        /\ sleeps[k].attempt = MAX_RETRIES - 1
        /\ sleeps[k].wait > sleeps[k].base * 10

RawScore(i) == ArticleScore(f_articles[i], f_entity)

AllBelowThreshold == \A i \in DOMAIN f_articles : RawScore(i) < MinRelevance

\* C8: an entity with N >= 1 raw articles, all of them scoring below
\* min_relevance, gets exactly one article in the filter's output, and that
\* article has the highest score among the N.
C8_OneSurvivor ==
    (f_done /\ Len(f_articles) >= 1 /\ AllBelowThreshold) =>
        /\ Len(f_filtered) = 1
        /\ \E i \in DOMAIN f_articles :
            /\ f_filtered[1] = WithRelevance(f_articles[i], f_entity)
            /\ \A j \in DOMAIN f_articles : RawScore(j) <= RawScore(i)

\* C8's case: several articles below the threshold, the best of them not first
C8_Witness ==
    /\ f_done
    /\ Len(f_articles) >= 2
    /\ AllBelowThreshold
    /\ \E i \in DOMAIN f_articles : RawScore(1) < RawScore(i)

\* the raw articles scoring at least min_relevance, in their order, each with
\* its score attached
RECURSIVE AtOrAbove(_, _)
AtOrAbove(articles, entity) ==
    IF articles = <<>> THEN <<>>
    ELSE (IF ArticleScore(Head(articles), entity) >= MinRelevance
          THEN <<WithRelevance(Head(articles), entity)>> ELSE <<>>)
         \o AtOrAbove(Tail(articles), entity)

\* C9: for an entity with at least one article scoring >= min_relevance the
\* filter's output is exactly the raw articles scoring >= min_relevance, in
\* their original order.
C9_ExactlyRelevant ==
    (f_done /\ \E i \in DOMAIN f_articles : RawScore(i) >= MinRelevance) =>
        f_filtered = AtOrAbove(f_articles, f_entity)

\* C9's case: articles below, at and above the threshold for one entity
C9_Witness ==
    /\ f_done
    /\ \E i \in DOMAIN f_articles : RawScore(i) < MinRelevance
    /\ \E i \in DOMAIN f_articles : RawScore(i) = MinRelevance
    /\ \E i \in DOMAIN f_articles : RawScore(i) > MinRelevance

NoVariationOccurs ==
    \A i \in DOMAIN EntityVariations(s_entity) :
        /\ ~Contains(EntityVariations(s_entity)[i], Lower(s_title))
        /\ ~Contains(EntityVariations(s_entity)[i], Lower(s_excerpt))

\* C10: the score is in [0.0, 1.0] for every (title, excerpt, entity_name), and
\* it is 0.0 when no variation of the entity name occurs in the title or in
\* the excerpt.
C10_ScoreBounded ==
    s_score # NotScored =>
        /\ 0 <= s_score /\ s_score <= 10
        /\ NoVariationOccurs => s_score = 0

\* C10's case: a title match and an early excerpt match, whose parts add up to
\* more than 1.0
C10_Witness ==
    /\ s_score = 10
    /\ TitleScore(Lower(s_title), EntityVariations(s_entity)) = 7
    /\ PositionScore(Lower(s_excerpt), EntityVariations(s_entity)) = 2

(***************************************************************************)
(* Configuration (config/config.py) and the entity lists of a deployment    *)
(***************************************************************************)
BATCH_SIZE == 3
HIGH_PROFILE_RESULT_COUNT == 5
LOW_PROFILE_RESULT_COUNT == 4
TOPIC_RESULT_COUNT == 5

HIGH_PROFILE_ENTITIES ==
    << <<"J",".","P","."," ","M","o","r","g","a","n"," ","C","h","a","s","e"," ","&"," ","C","o",".">>,
       <<"M","o","r","g","a","n"," ","S","t","a","n","l","e","y">>,
       <<"W","e","l","l","s"," ","F","a","r","g","o"," ","&"," ","C","o","m","p","a","n","y">>,
       <<"F","i","d","e","l","i","t","y"," ","I","n","v","e","s","t","m","e","n","t","s">>,
       <<"A","c","c","e","n","t","u","r","e">>,
       <<"I","n","f","o","s","y","s">>,
       <<"V","e","r","i","s","k">>,
       <<"P","r","u","d","e","n","t","i","a","l"," ","F","i","n","a","n","c","i","a","l",","," ","I","n","c",".">>,
       <<"M","a","s","s","M","u","t","u","a","l">>,
       <<"U","S","A","A">>,
       <<"A","m","e","r","i","p","r","i","s","e"," ","F","i","n","a","n","c","i","a","l",","," ","I","n","c",".">>,
       <<"N","a","t","i","o","n","w","i","d","e"," ","M","u","t","u","a","l"," ","I","n","s","u","r","a","n","c","e"," ","C","o","m","p","a","n","y">> >>

LOW_PROFILE_ENTITIES ==
    << <<"A","d","v","i","s","o","r","s"," ","E","x","c","e","l",","," ","L","L","C">>,
       <<"L","e","g","a","l"," ","&"," ","G","e","n","e","r","a","l"," ","A","m","e","r","i","c","a">>,
       <<"K","u","v","a","r","e"," ","H","o","l","d","i","n","g","s",","," ","I","n","c",".">>,
       <<"N","a","s","s","a","u"," ","F","i","n","a","n","c","i","a","l"," ","G","r","o","u","p">>,
       <<"W","e","l","l","a","b","e",","," ","I","n","c",".">>,
       <<"A","r","c","u","s"," ","H","o","l","d","i","n","g","s">>,
       <<"A","C","A","P">>,
       <<"A","t","l","a","n","t","i","c"," ","C","o","a","s","t"," ","L","i","f","e"," ","I","n","s","u","r","a","n","c","e"," ","C","o","m","p","a","n","y">>,
       <<"B","e","n","e","k","i","v","a">>,
       <<"F","I","D","x">>,
       <<"H","e","x","u","r","e">>,
       <<"L","I","D","P">>,
       <<"L","U","M","A">>,
       <<"S","u","r","e","i","f","y">> >>

\* any(x in entity_name for x in names)
AnyIn(names, entity_name) == \E i \in 1..Len(names) : Contains(names[i], entity_name)

\* the result count of an entity name by its profile
ProfileResultCount(entity_name) ==
    IF AnyIn(HIGH_PROFILE_ENTITIES, entity_name) THEN HIGH_PROFILE_RESULT_COUNT
    ELSE IF AnyIn(LOW_PROFILE_ENTITIES, entity_name) THEN LOW_PROFILE_RESULT_COUNT
    ELSE DEFAULT_RESULT_COUNT

\* entity tuples: (name, query), and (category, name, query) for a topic
get_entity_name(t) == IF Len(t) <= 2 THEN t[1] ELSE t[2]

get_entity_query(t) ==
    IF Len(t) > 2 THEN t[3]
    ELSE IF Len(t) > 1 THEN (IF t[2] # <<>> THEN t[2] ELSE t[1])
    ELSE t

General == <<"G","e","n","e","r","a","l">>

get_topic_category(t) == IF Len(t) > 2 THEN t[1] ELSE General

get_adaptive_parameters(t) ==
    [time_filter |-> "w", max_results |-> ProfileResultCount(get_entity_name(t))]

\* the entity lists of the deployment checked: a high-profile client, a client
\* with no query, a low-profile competitor, one topic
Clients ==
    << << <<"U","S","A","A">>, <<"\"","U","S","A","A","\"">> >>,
       << <<"A","b">>, <<>> >> >>

Competitors ==
    << << <<"A","C","A","P">>, <<"\"","A","C","A","P","\"">> >> >>

Topics ==
    << << <<"T">>, <<"A","I">>, <<"A","I"," ","n","e","w","s">> >> >>

Entities(kind) ==
    CASE kind = "client" -> Clients
      [] kind = "competitor" -> Competitors
      [] OTHER -> Topics

\* the articles the provider has, as search_news returns them
RunArticle1 ==
    [title |-> <<"U","S","A","A">>, body |-> <<"x">>,
     href |-> <<"u","1">>, source |-> <<"s">>, date |-> <<"1","Z">>]

RunArticle2 ==
    [title |-> <<"A","I"," ","A","b">>, body |-> <<"A","C","A","P">>,
     href |-> <<"u","2","?","k","#","f">>, source |-> <<"s">>, date |-> <<"2","Z">>]

RunArticle3 ==
    [title |-> <<"x">>, body |-> <<"x">>,
     href |-> <<"u","3">>, source |-> <<"s">>, date |-> <<"?">>]

\* the lists a search_news call may return to a run (the empty list also when
\* the provider failed on every attempt)
RunResults == { <<>>, <<RunArticle1>>, <<RunArticle3, RunArticle2>> }

(***************************************************************************)
(* The runs: main (weekly) and collect_daily_news_with_summary (daily)     *)
(***************************************************************************)
Targets == {"clients", "competitors", "topics", "both", "all"}

Wanted(mode, target, kind) ==
    IF mode = "daily" THEN kind \in {"client", "competitor"}
    ELSE CASE kind = "client" -> target \in {"clients", "both", "all"}
           [] kind = "competitor" -> target \in {"competitors", "both", "all"}
           [] OTHER -> target \in {"topics", "all"}

\* the entity lists a run collects, in the order it collects them
KindsOf(mode, target) ==
    LET W(k) == Wanted(mode, target, k)
    IN SelectSeq(<<"client", "competitor", "topic">>, W)

\* the list collected after list kind, "none" after the last one
KindAfter(mode, target, kind) ==
    LET ks == KindsOf(mode, target)
        i == CHOOSE j \in 1..Len(ks) : ks[j] = kind
    IN IF i < Len(ks) THEN ks[i + 1] ELSE "none"

\* the file save_to_csv writes for a list: its entity_type, and the mode of the run
FileKind(mode, kind) == <<kind, mode>>

DictValues(d) == [i \in 1..Len(d.keys) |-> d.val[d.keys[i]]]

\* the name under which the results of an entity are stored
FullEntityName(kind, t) ==
    IF kind = "topic"
    THEN get_topic_category(t) \o <<":", " ">> \o (IF Len(t) > 1 THEN t[2] ELSE t)
    ELSE get_entity_name(t)

\* the parameters of the search of entity tuple t
SearchParameters(mode, adaptive, kind, t) ==
    IF mode = "daily"
    THEN [time_filter |-> "d", max_results |-> ProfileResultCount(get_entity_name(t))]
    ELSE IF adaptive /\ kind # "topic" THEN get_adaptive_parameters(t)
    ELSE [time_filter |-> "w",
          max_results |-> IF kind = "topic" THEN TOPIC_RESULT_COUNT ELSE DEFAULT_RESULT_COUNT]

\* mutant: the last, shorter batch is not counted
NumBatches_floor(n, batch_size) == n \div batch_size

\* num_batches = (len(entity_list) + batch_size - 1) // batch_size
NumBatches(n, batch_size) == (n + batch_size - 1) \div batch_size

\* entity_list[start_idx:end_idx] of batch batch_idx
batch_entities(entity_list, batch_size, batch_idx) ==
    LET start_idx == batch_idx * batch_size
        end_idx == Min(start_idx + batch_size, Len(entity_list))
    IN SubSeq(entity_list, start_idx + 1, end_idx)

\* not (entity_tuple == batch_entities[-1] and batch_idx == num_batches - 1)
SleepsAfterEntity(entity_tuple, batch, batch_idx, num_batches) ==
    ~(entity_tuple = batch[Len(batch)] /\ batch_idx = num_batches - 1)

\* whether a pacing sleep follows the search of the entity at place i of its list
SleepsAfter(mode, kind, i) ==
    LET list == Entities(kind)
        batch_idx == (i - 1) \div BATCH_SIZE
    IN IF mode = "daily"
       THEN list[i] # list[Len(list)]
       ELSE SleepsAfterEntity(list[i], batch_entities(list, BATCH_SIZE, batch_idx), batch_idx,
                              NumBatches(Len(list), BATCH_SIZE))

SearchEvent(kind, t, params) ==
    [op |-> "search", kind |-> kind, entity |-> FullEntityName(kind, t),
     query |-> get_entity_query(t),
     max_results |-> params.max_results, time_filter |-> params.time_filter]

SleepEvent(kind, t) ==
    [op |-> "sleep", kind |-> kind, entity |-> FullEntityName(kind, t),
     query |-> <<>>, max_results |-> 0, time_filter |-> "none"]

\* how get_previous_daily_news ended: no file ("missing"), an exception while
\* reading it ("error"), or the table read ("loaded")
LoadOutcome(load_fails) ==
    IF ~daily_combined.exists THEN "missing"
    ELSE IF load_fails \/ Len(daily_combined.columns) = 0 THEN "error"
    ELSE "loaded"

LoadEvent(load_fails) ==
    [op |-> "load", kind |-> LoadOutcome(load_fails), entity |-> <<>>,
     query |-> <<>>, max_results |-> 0, time_filter |-> "none"]

\* the run returns: outcome says what it returned
End(outcome) ==
    /\ r_pc' = "idle"
    /\ r_outcome' = outcome

\* the start of a run on its first list, with the files of this run
Begin(mode, target, adaptive) ==
    /\ r_mode' = mode /\ r_target' = target /\ r_adaptive' = adaptive
    /\ r_kind' = KindsOf(mode, target)[1]
    /\ r_idx' = 1
    /\ r_pc' = "search"
    /\ all_news' = EmptyDict /\ dataframes' = EmptyDict
    /\ r_log' = <<>> /\ r_raw' = {}
    /\ r_prev' = EmptyFrame /\ r_before' = EmptyFrame /\ r_combined' = EmptyFrame
    /\ r_dedups' = 0 /\ r_outcome' = "running"
    /\ files' = {}
    /\ UNCHANGED <<daily_combined, searchVars, scoreVars, filterVars, batchVars, monitorVars>>

\* main(target_type, use_adaptive) is called
StartWeekly ==
    /\ r_pc = "idle"
    /\ \E t \in Targets, a \in BOOLEAN : Begin("weekly", t, a)

\* collect_daily_news_with_summary() is called
StartDaily ==
    /\ r_pc = "idle"
    /\ Begin("daily", "none", TRUE)

\* one turn of the loop over the entities of a list: the search of the entity,
\* its results stored, the pacing sleep
SearchEntity ==
    /\ r_pc = "search"
    /\ LET t == Entities(r_kind)[r_idx]
           \* topics are collected with use_adaptive=False
           params == SearchParameters(r_mode, r_adaptive /\ r_kind # "topic", r_kind, t)
           name == FullEntityName(r_kind, t)
       IN \E res \in RunResults :
            /\ all_news' = DictSet(all_news, name, res)
            /\ r_raw' = r_raw \cup {[entity |-> name, article |-> res[i]] : i \in 1..Len(res)}
            /\ r_log' = r_log \o <<SearchEvent(r_kind, t, params)>>
                        \o (IF SleepsAfter(r_mode, r_kind, r_idx)
                            THEN <<SleepEvent(r_kind, t)>> ELSE <<>>)
    /\ r_idx' = r_idx + 1
    /\ r_pc' = IF r_idx = Len(Entities(r_kind)) THEN "save" ELSE "search"
    /\ UNCHANGED <<r_mode, r_target, r_adaptive, r_kind, dataframes, r_prev, r_before,
                   r_combined, r_dedups, r_outcome, daily_combined, files,
                   searchVars, scoreVars, filterVars, batchVars, monitorVars>>

\* search_news raises (an AttributeError on a body that is no JSON object): the
\* exception reaches the except clause of the run, which returns None
SearchRaises ==
    /\ r_pc = "search"
    /\ r_log' = r_log \o <<SearchEvent(r_kind, Entities(r_kind)[r_idx],
                    SearchParameters(r_mode, r_adaptive /\ r_kind # "topic", r_kind,
                                     Entities(r_kind)[r_idx]))>>
    /\ End("error")
    /\ UNCHANGED <<r_mode, r_target, r_adaptive, r_kind, r_idx, all_news, dataframes,
                   r_raw, r_prev, r_before, r_combined, r_dedups, daily_combined, files,
                   searchVars, scoreVars, filterVars, batchVars, monitorVars>>

\* after the loop over a list: convert_to_dataframe, then save_to_csv, which
\* writes the file and then reads df['client'] (a KeyError on a table without
\* columns, caught by the except clause of the run)
SaveList ==
    /\ r_pc = "save"
    /\ LET df == convert_to_dataframe(all_news)
           next == KindAfter(r_mode, r_target, r_kind)
       IN /\ dataframes' = DictSet(dataframes, r_kind, df)
          /\ files' = files \cup {FileKind(r_mode, r_kind)}
          /\ IF ~HasColumn(df, "client")
             THEN /\ End("error")
                  /\ UNCHANGED <<r_kind, r_idx, all_news>>
             ELSE IF next = "none"
             THEN /\ r_pc' = "combine"
                  /\ UNCHANGED <<r_kind, r_idx, all_news, r_outcome>>
             ELSE /\ r_pc' = "search"
                  /\ r_kind' = next
                  /\ r_idx' = 1
                  /\ all_news' = EmptyDict
                  /\ UNCHANGED r_outcome
    /\ UNCHANGED <<r_mode, r_target, r_adaptive, r_log, r_raw, r_prev, r_before,
                   r_combined, r_dedups, daily_combined, searchVars, scoreVars, filterVars, batchVars, monitorVars>>

\* the end of main: the combined weekly file for target both or all, then the
\* list of files is returned
WeeklyFinish ==
    /\ r_pc = "combine" /\ r_mode = "weekly"
    /\ files' = IF r_target \in {"both", "all"} /\ Len(dataframes.keys) > 0
                THEN files \cup {FileKind("weekly", "weekly")} ELSE files
    /\ End("csv_files")
    /\ UNCHANGED <<r_mode, r_target, r_adaptive, r_kind, r_idx, all_news, dataframes,
                   r_log, r_raw, r_prev, r_before, r_combined, r_dedups, daily_combined,
                   searchVars, scoreVars, filterVars, batchVars, monitorVars>>

\* get_previous_daily_news: the latest daily_combined file, an empty table when
\* there is none or when reading it fails
get_previous_daily_news(load_fails) ==
    IF daily_combined.exists /\ ~load_fails /\ Len(daily_combined.columns) > 0
    THEN read_csv(daily_combined)
    ELSE EmptyFrame

\* the end of the daily run: the tables combined, the previous table loaded,
\* the duplicates removed, the combined table saved, the summary asked for
DailyFinish ==
    /\ r_pc = "combine" /\ r_mode = "daily"
    /\ LET client_news_df == dataframes.val["client"]
           competitor_news_df == dataframes.val["competitor"]
           NonEmpty(df) == ~IsEmpty(df)
           combined_df == Concat(SelectSeq(DictValues(dataframes), NonEmpty))
       IN IF IsEmpty(client_news_df) /\ IsEmpty(competitor_news_df)
          THEN /\ End("no_articles")
               /\ UNCHANGED <<r_prev, r_before, r_combined, r_dedups, daily_combined, files,
                              r_log>>
          ELSE \E load_fails \in BOOLEAN, summary \in {"written", "failed", "raised"} :
                LET previous_df == get_previous_daily_news(load_fails)
                    final_df == IF ~IsEmpty(previous_df)
                                THEN remove_duplicate_news(combined_df, previous_df)
                                ELSE combined_df
                IN /\ r_log' = Append(r_log, LoadEvent(load_fails))
                   /\ r_prev' = previous_df
                   /\ r_before' = combined_df
                   /\ r_combined' = final_df
                   /\ r_dedups' = IF ~IsEmpty(previous_df) THEN r_dedups + 1 ELSE r_dedups
                   /\ daily_combined' = FileOf(final_df)
                   \* cleanup_intermediate_files keeps the combined file and the summary
                   /\ files' = IF summary = "written"
                               THEN {<<"daily_combined", "daily">>, <<"daily_summary", "daily">>}
                               ELSE files \cup {<<"daily_combined", "daily">>}
                   /\ End(CASE summary = "written" -> "summary_file"
                            [] summary = "failed" -> "combined_csv"
                            [] OTHER -> "error")
    /\ UNCHANGED <<r_mode, r_target, r_adaptive, r_kind, r_idx, all_news, dataframes,
                   r_raw, searchVars, scoreVars, filterVars, batchVars, monitorVars>>

Init == RunIdle /\ SearchIdle /\ ScoreIdle /\ FilterIdle /\ BatchIdle /\ MonitorIdle

Next ==
    \/ StartWeekly \/ StartDaily
    \/ SearchEntity \/ SearchRaises \/ SaveList
    \/ WeeklyFinish \/ DailyFinish

Spec == Init /\ [][Next]_vars

(***************************************************************************)
(* Claims about the runs                                                   *)
(***************************************************************************)
\* a run has returned
Finished == r_pc = "idle" /\ r_outcome # "none"

\* the row as a file holds it and read_csv gives it back
Persisted(cell) == CsvCell(CsvField(cell))

\* the checkpoint loaded by the run holds a row with the title and the URL of row
InCheckpoint(row) ==
    \E i \in 1..Len(r_prev.rows) :
        /\ r_prev.rows[i]["title"] = Persisted(row["title"])
        /\ r_prev.rows[i]["url"] = Persisted(row["url"])

HasTitle(df, title) == \E i \in 1..Len(df.rows) : df.rows[i]["title"] = title

\* C2: in a daily run that loaded the combined table persisted by the run
\* before it, an article the search returned again, with the title and the URL
\* of a row of that table, is not a row of the final combined table.
C2_RepeatSuppressed ==
    (Finished /\ r_mode = "daily" /\ r_dedups = 1) =>
        \A i \in 1..Len(r_before.rows) :
            InCheckpoint(r_before.rows[i]) =>
                ~HasTitle(r_combined, r_before.rows[i]["title"])

\* C3: a run whose searches all completed and found no article for any entity
\* returns normally, not with the error outcome.
C3_EmptyRunCompletes ==
    (Finished /\ r_raw = {} /\ Len(dataframes.keys) > 0) => r_outcome # "error"

(***************************************************************************)
(* Claims about the scores of title matches and excerpt matches             *)
(***************************************************************************)
\* the title contains the entity name (letter case apart)
TitleHasName(title, entity) == Contains(Lower(entity), Lower(title))

\* the entity is mentioned in the excerpt only: no form of its name occurs in
\* the title, one occurs in the excerpt
ExcerptOnly(title, excerpt, entity) ==
    /\ FirstMatch(EntityVariations(entity), Lower(title)) = 0
    /\ FirstMatch(EntityVariations(entity), Lower(excerpt)) # 0

\* the scores of the articles that mention the entity in the excerpt only
ExcerptOnlyScores ==
    [e \in ScoreEntities |->
        { calculate_relevance_score(p[1], p[2], e) :
            p \in {q \in Titles \X Excerpts : ExcerptOnly(q[1], q[2], e)} }]

\* C11: for a fixed entity name, an article whose title contains the name
\* scores strictly higher than every article that mentions the entity in its
\* excerpt only, wherever the matches are.
C11_TitleBeatsExcerpt ==
    (s_score # NotScored /\ TitleHasName(s_title, s_entity)) =>
        \A e \in ExcerptOnlyScores[s_entity] : s_score > e

\* C11's case: the lowest title match (late in the title, nothing in the
\* excerpt) against the highest excerpt-only score (a mention at its start)
C11_Witness ==
    /\ s_score = 6
    /\ TitleHasName(s_title, s_entity)
    /\ 5 \in ExcerptOnlyScores[s_entity]

\* article i of the entity mentions it in the excerpt only
ExcerptOnlyArticle(i) == ExcerptOnly(f_articles[i]["title"], f_articles[i]["body"], f_entity)

\* article i of the entity has a form of the entity's name in its title
TitleMatchArticle(i) ==
    FirstMatch(EntityVariations(f_entity), Lower(f_articles[i]["title"])) # 0

\* article i is in the output of the filter
Kept(i) == \E k \in DOMAIN f_filtered : f_filtered[k] = WithRelevance(f_articles[i], f_entity)

\* the bonus for the place of the first mention in the excerpt, in tenths
PlaceBonus(excerpt, entity) ==
    LET vs == EntityVariations(entity)
        position == Find(vs[FirstMatch(vs, Lower(excerpt))], Lower(excerpt))
    IN IF position < Len(excerpt) \div 4 THEN 2
       ELSE IF position < Len(excerpt) \div 2 THEN 1
       ELSE 0

\* C12 as stated: an article that mentions the entity in its excerpt only
\* scores below the threshold wherever the mention is, and is dropped when the
\* entity also has an article with a title match.
C12_Original ==
    f_done =>
        \A i \in DOMAIN f_articles :
            ExcerptOnlyArticle(i) =>
                /\ RawScore(i) < MinRelevance
                /\ (\E j \in DOMAIN f_articles : TitleMatchArticle(j)) => ~Kept(i)

\* C12, amended: an article that mentions the entity in its excerpt only scores
\* 0.3 plus the bonus of the place of the mention (0.2 in the first quarter of
\* the excerpt, 0.1 in the first half), so 0.3, 0.4 or 0.5; at 0.5 it meets the
\* threshold and is kept, next to the title matches; below 0.5 it is dropped
\* when an article of the entity reaches the threshold (every title match
\* does), and kept otherwise only as the first article of maximal score.
C12_ExcerptOnly ==
    f_done =>
        \A i \in DOMAIN f_articles :
            /\ TitleMatchArticle(i) => RawScore(i) >= 6 /\ Kept(i)
            /\ ExcerptOnlyArticle(i) =>
                /\ RawScore(i) = 3 + PlaceBonus(f_articles[i]["body"], f_entity)
                /\ RawScore(i) >= MinRelevance => Kept(i)
                /\ (RawScore(i) < MinRelevance /\ ~AllBelowThreshold) => ~Kept(i)
                /\ (RawScore(i) < MinRelevance /\ AllBelowThreshold) =>
                        (Kept(i) <=>
                            f_articles[i] = f_articles[MostRelevantIndex(f_articles, f_entity)])

\* C12's case: an excerpt-only article at 0.5 kept next to a title match, and
\* an excerpt-only article below 0.5 dropped
C12_Witness ==
    /\ f_done
    /\ \E i, j, k \in DOMAIN f_articles :
        /\ ExcerptOnlyArticle(i) /\ RawScore(i) = MinRelevance /\ Kept(i)
        /\ TitleMatchArticle(j) /\ Kept(j)
        /\ ExcerptOnlyArticle(k) /\ RawScore(k) < MinRelevance /\ ~Kept(k)

(***************************************************************************)
(* remove_duplicate_news applied to two tables                             *)
(***************************************************************************)
MaxCurrentRows == 2

\* a row of a table of articles
DedupRow(title, url, source) ==
    [client |-> Str(<<"A","b">>), title |-> Str(title), url |-> url, date |-> Str(<<"1","Z">>),
     source |-> Str(source), excerpt |-> Str(<<"x">>), image |-> Str(<<>>), relevance |-> Num(6)]

\* the rows of current: as collected in this run
CurrentRows ==
    { DedupRow(t, u, <<"s">>) :
        t \in { <<"A","b">>, <<"x">> },
        u \in { Str(<<"u","?","k","#","f">>), Str(<<"U">>), Str(<<>>), NaN } }

\* the rows of previous: the same articles as an earlier run met them, in
\* another letter case, with other whitespace, tracking parameters and source
PreviousRows ==
    { DedupRow(t, u, <<"t">>) :
        t \in { <<" ","a","B"," ">>, <<"A","b">>, <<"x">> },
        u \in { Str(<<"u">>), Str(<<"u","#","f">>), Str(<<"v">>), Str(<<>>), NaN } }

TableOf(rows) == [columns |-> FrameColumns, rows |-> rows]

\* the tables previous is drawn from: no table, one row, and two rows
PreviousTables ==
    {EmptyFrame, TableOf(<<>>)}
    \cup { TableOf(<<r>>) : r \in PreviousRows }
    \cup { TableOf(<<DedupRow(<<"x">>, Str(<<"v">>), <<"t">>), r>>) : r \in PreviousRows }

DedupInit ==
    /\ r_pc = "dedup" /\ r_mode = "none" /\ r_target = "none" /\ r_adaptive = FALSE
    /\ r_kind = "none" /\ r_idx = 0
    /\ all_news = EmptyDict /\ dataframes = EmptyDict
    /\ r_log = <<>> /\ r_raw = {}
    /\ r_prev = EmptyFrame /\ r_before = TableOf(<<>>) /\ r_combined = EmptyFrame
    /\ r_dedups = 0 /\ r_outcome = "none"
    /\ daily_combined = NoFile /\ files = {}
    /\ SearchIdle /\ ScoreIdle /\ FilterIdle /\ BatchIdle /\ MonitorIdle

\* one more row in current
AddRow ==
    /\ r_pc = "dedup"
    /\ Len(r_before.rows) < MaxCurrentRows
    /\ \E r \in CurrentRows : r_before' = TableOf(Append(r_before.rows, r))
    /\ UNCHANGED <<r_pc, r_mode, r_target, r_adaptive, r_kind, r_idx, all_news, dataframes,
                   r_log, r_raw, r_prev, r_combined, r_dedups, r_outcome, daily_combined,
                   files, searchVars, scoreVars, filterVars, batchVars, monitorVars>>

\* remove_duplicate_news(current, previous)
Dedup ==
    /\ r_pc = "dedup"
    /\ \E previous \in PreviousTables :
        /\ r_prev' = previous
        /\ r_combined' = remove_duplicate_news(r_before, previous)
        /\ dataframes' = [keys |-> <<"current", "previous">>,
                          val |-> InputsAfter(r_before, previous)]
    /\ r_dedups' = r_dedups + 1
    /\ r_pc' = "deduped"
    /\ UNCHANGED <<r_mode, r_target, r_adaptive, r_kind, r_idx, all_news,
                   r_log, r_raw, r_before, r_outcome, daily_combined, files,
                   searchVars, scoreVars, filterVars, batchVars, monitorVars>>

\* remove_duplicate_news(t, t)
DedupSelf ==
    /\ r_pc = "dedup"
    /\ r_prev' = r_before
    /\ r_combined' = remove_duplicate_news(r_before, r_before)
    /\ dataframes' = [keys |-> <<"current", "previous">>,
                      val |-> InputsAfter(r_before, r_before)]
    /\ r_dedups' = r_dedups + 1
    /\ r_pc' = "deduped"
    /\ UNCHANGED <<r_mode, r_target, r_adaptive, r_kind, r_idx, all_news,
                   r_log, r_raw, r_before, r_outcome, daily_combined, files,
                   searchVars, scoreVars, filterVars, batchVars, monitorVars>>

DedupNext == AddRow \/ Dedup \/ DedupSelf

SpecDedup == DedupInit /\ [][DedupNext]_vars

(***************************************************************************)
(* Claims about remove_duplicate_news                                      *)
(***************************************************************************)
Deduped == r_pc = "deduped"

\* the text of a URL with its query string and its fragment removed
UrlBase(u) == SplitFirst(SplitFirst(u, "?"), "#")

\* the titles of a and b are equal up to letter case and surrounding whitespace,
\* and their URLs (both missing, or both given) are equal after removing the
\* query string and the fragment
SameArticle(a, b) ==
    /\ Lower(Strip(a["title"].v)) = Lower(Strip(b["title"].v))
    /\ a["url"].t = b["url"].t
    /\ UrlBase(a["url"].v) = UrlBase(b["url"].v)

\* the identity key of row is the identity key of no row of df
FreshIn(row, df) == \A i \in 1..Len(df.rows) : create_id(row) # create_id(df.rows[i])

\* C13: with both tables non-empty, remove_duplicate_news returns exactly the
\* rows of current, in their order, whose identity key is the key of no row of
\* previous; and a row of current with the title (up to letter case and
\* surrounding whitespace) and the URL (query string and fragment removed) of a
\* row of previous has that row's key, whatever their other fields, so it is
\* not returned.
C13_ExactlyFresh ==
    (Deduped /\ ~IsEmpty(r_before) /\ ~IsEmpty(r_prev)) =>
        /\ r_combined.columns = r_before.columns
        /\ LET Fresh(row) == FreshIn(row, r_prev)
           IN r_combined.rows = SelectSeq(r_before.rows, Fresh)
        /\ \A i \in 1..Len(r_before.rows), j \in 1..Len(r_prev.rows) :
            SameArticle(r_before.rows[i], r_prev.rows[j]) =>
                /\ create_id(r_before.rows[i]) = create_id(r_prev.rows[j])
                /\ \A k \in 1..Len(r_combined.rows) : r_combined.rows[k] # r_before.rows[i]

\* C13's case: of two rows of current, one is returned and the other, which
\* differs from a row of previous in letter case, whitespace, query string,
\* fragment and source, is removed
C13_Witness ==
    /\ Deduped
    /\ Len(r_before.rows) = 2 /\ Len(r_combined.rows) = 1
    /\ \E i \in 1..2, j \in 1..Len(r_prev.rows) :
        /\ SameArticle(r_before.rows[i], r_prev.rows[j])
        /\ r_before.rows[i]["title"] # r_prev.rows[j]["title"]
        /\ r_before.rows[i]["url"] # r_prev.rows[j]["url"]
        /\ r_before.rows[i]["source"] # r_prev.rows[j]["source"]

\* C14: remove_duplicate_news(t, t) returns a table with no rows, for every
\* table t.
C14_SelfEmpty ==
    (Deduped /\ r_prev = r_before) => Len(r_combined.rows) = 0

\* C14's case: a table of two different rows compared with itself
C14_Witness ==
    /\ Deduped
    /\ r_prev = r_before
    /\ Len(r_before.rows) = 2
    /\ r_before.rows[1] # r_before.rows[2]
    /\ Len(r_combined.rows) = 0

(***************************************************************************)
(* Claims about the daily run without a previous table                     *)
(***************************************************************************)
\* the daily run reached its dedup step, and how get_previous_daily_news ended
Loaded(how) == \E k \in DOMAIN r_log : r_log[k].op = "load" /\ r_log[k].kind = how

\* C15: when there is no previous file or reading it fails,
\* get_previous_daily_news gives an empty table and the run goes on; and when
\* the previous table is empty, remove_duplicate_news returns current as it is
\* and the combined table the daily run saves is the table it had before the
\* dedup step.
C15_NoPreviousNoChange ==
    (Finished /\ r_mode = "daily") =>
        /\ (Loaded("missing") \/ Loaded("error")) => r_prev = EmptyFrame
        /\ (\E how \in {"missing", "error", "loaded"} : Loaded(how)) /\ IsEmpty(r_prev) =>
            /\ remove_duplicate_news(r_before, r_prev) = r_before
            /\ r_combined = r_before
            /\ daily_combined = FileOf(r_before)

\* C15's case: a daily run that found articles and could not read the combined
\* file of the run before it
C15_Witness ==
    /\ Finished /\ r_mode = "daily"
    /\ Loaded("error")
    /\ Len(r_before.rows) > 0
    /\ r_combined = r_before

(***************************************************************************)
(* Claims about the collection of one entity list                          *)
(***************************************************************************)
\* the display names of the entities of a list, in list order
DisplayNames(kind) ==
    [i \in 1..Len(Entities(kind)) |-> FullEntityName(kind, Entities(kind)[i])]

\* the entities searched so far for a list, in the order of the searches
SearchedNames(kind) ==
    LET OfKind(e) == e.op = "search" /\ e.kind = kind
        searches == SelectSeq(r_log, OfKind)
    IN [i \in 1..Len(searches) |-> searches[i].entity]

\* the weekly collection of the list r_kind is over: collect_news_for_batches
\* has returned, or the run has ended
CollectionOver == r_mode = "weekly" /\ (r_pc = "save" \/ Finished)

\* C16: when the collection of an entity list is over, the search client has
\* been invoked exactly once per entity, in list order, whatever the earlier
\* searches met, and the result map has an entry under the display name of
\* every entity of the list.
C16_EveryEntitySearched ==
    CollectionOver =>
        /\ SearchedNames(r_kind) = DisplayNames(r_kind)
        /\ \A i \in 1..Len(Entities(r_kind)) : DictHas(all_news, DisplayNames(r_kind)[i])

(***************************************************************************)
(* collect_news_for_batches over any entity list and batch size             *)
(***************************************************************************)
MaxEntities == 7
MaxBatchSize == 3

\* the names of the entities of a configuration: a listed high-profile name, a
\* listed low-profile name, a name that contains a listed name, and names E4,
\* E5, ... that contain none
BatchName(i) ==
    CASE i = 1 -> <<"U","S","A","A">>
      [] i = 2 -> <<"A","C","A","P">>
      [] i = 3 -> <<"U","S","A","A"," ","R","e">>
      [] OTHER -> <<"E", DigitChar(i)>>

\* the configured query of entity i: none for the even ones
BatchQuery(i) == IF i % 2 = 0 THEN <<>> ELSE <<"q", DigitChar(i)>>

\* entity i as convert_entities_to_tuples gives it
BatchEntity(type, i) ==
    IF type = "topic" THEN << <<"T">>, BatchName(i), BatchQuery(i) >>
    ELSE << BatchName(i), BatchQuery(i) >>

\* the list of the first n entities
DistinctList(type, n) == [i \in 1..n |-> BatchEntity(type, i)]

\* the entity lists of a configuration: the entities listed once each, or with
\* one entity listed a second time
EntityLists(type) ==
    { DistinctList(type, n) : n \in 0..MaxEntities }
    \cup { [DistinctList(type, t[1]) EXCEPT ![t[3]] = BatchEntity(type, t[2])] :
             t \in { u \in (1..MaxEntities) \X (1..MaxEntities) \X (1..MaxEntities) :
                        u[2] < u[3] /\ u[3] <= u[1] } }

\* what the provider has in this harness: an article for the entities that
\* have a configured query
BatchResults(entity_tuple) ==
    IF entity_tuple[Len(entity_tuple)] # <<>>
    THEN <<RunArticle1>> ELSE <<>>

\* collect_news_for_batches(entity_list, batch_size) is called
BatchInit ==
    /\ b_pc = "loop"
    /\ b_type \in {"client", "topic"}
    /\ b_adaptive \in BOOLEAN
    /\ b_list \in EntityLists(b_type)
    /\ b_size \in 1..MaxBatchSize
    /\ b_batch = 0 /\ b_pos = 1
    /\ b_batches = <<>> /\ b_log = <<>> /\ b_news = EmptyDict
    /\ SearchIdle /\ ScoreIdle /\ FilterIdle /\ RunIdle /\ MonitorIdle

\* one turn of the loop over batch_entities: the batch formed when it starts,
\* the search, the result stored, the pacing sleep
BatchTurn ==
    /\ b_pc = "loop"
    /\ b_batch < NumBatches(Len(b_list), b_size)
    /\ LET batch == batch_entities(b_list, b_size, b_batch)
           entity_tuple == batch[b_pos]
           params == SearchParameters("weekly", b_adaptive, b_type, entity_tuple)
       IN /\ b_batches' = IF b_pos = 1 THEN Append(b_batches, batch) ELSE b_batches
          /\ b_news' = DictSet(b_news, FullEntityName(b_type, entity_tuple),
                               BatchResults(entity_tuple))
          /\ b_log' = b_log \o <<SearchEvent(b_type, entity_tuple, params)>>
                      \o (IF SleepsAfterEntity(entity_tuple, batch, b_batch,
                                               NumBatches(Len(b_list), b_size))
                          THEN <<SleepEvent(b_type, entity_tuple)>> ELSE <<>>)
          /\ IF b_pos = Len(batch)
             THEN b_batch' = b_batch + 1 /\ b_pos' = 1
             ELSE b_batch' = b_batch /\ b_pos' = b_pos + 1
    /\ UNCHANGED <<b_pc, b_list, b_type, b_adaptive, b_size, searchVars, scoreVars, filterVars, runVars, monitorVars>>

\* search_news raises: the exception leaves collect_news_for_batches
BatchRaises ==
    /\ b_pc = "loop"
    /\ b_batch < NumBatches(Len(b_list), b_size)
    /\ LET batch == batch_entities(b_list, b_size, b_batch)
       IN /\ b_batches' = IF b_pos = 1 THEN Append(b_batches, batch) ELSE b_batches
          /\ b_log' = Append(b_log, SearchEvent(b_type, batch[b_pos],
                                 SearchParameters("weekly", b_adaptive, b_type, batch[b_pos])))
    /\ b_pc' = "raised"
    /\ UNCHANGED <<b_list, b_type, b_adaptive, b_size, b_batch, b_pos, b_news,
                   searchVars, scoreVars, filterVars, runVars, monitorVars>>

\* the loop over the batches is over: return all_news
BatchReturn ==
    /\ b_pc = "loop"
    /\ b_batch >= NumBatches(Len(b_list), b_size)
    /\ b_pc' = "returned"
    /\ UNCHANGED <<b_list, b_type, b_adaptive, b_size, b_batch, b_pos, b_batches, b_log, b_news,
                   searchVars, scoreVars, filterVars, runVars, monitorVars>>

BatchNext == BatchTurn \/ BatchRaises \/ BatchReturn

SpecBatch == BatchInit /\ [][BatchNext]_vars

(***************************************************************************)
(* Claims about the batches and the pacing sleeps                           *)
(***************************************************************************)
BatchReturned == b_pc = "returned"

RECURSIVE Flatten(_)
Flatten(seqs) == IF seqs = <<>> THEN <<>> ELSE Head(seqs) \o Flatten(Tail(seqs))

\* C17: n entities and batch size b >= 1 give ceil(n/b) batches, consecutive
\* slices of the entity list: every batch has b entities but possibly the
\* last, which has between 1 and b; the batches in order make up the entity
\* list, each entity in one batch.
C17_ConsecutiveBatches ==
    BatchReturned =>
        LET n == Len(b_list)
            k == Len(b_batches)
        IN /\ k * b_size >= n
           /\ k > 0 => (k - 1) * b_size < n
           /\ \A i \in 1..(k - 1) : Len(b_batches[i]) = b_size
           /\ k > 0 => (Len(b_batches[k]) >= 1 /\ Len(b_batches[k]) <= b_size)
           /\ Flatten(b_batches) = b_list

\* C17's case: 7 entities with batch size 3 give batches of 3, 3 and 1
C17_Witness ==
    /\ BatchReturned
    /\ Len(b_list) = 7 /\ b_size = 3
    /\ Len(b_batches) = 3
    /\ Len(b_batches[1]) = 3 /\ Len(b_batches[2]) = 3 /\ Len(b_batches[3]) = 1

BatchSearches == SelectSeq(b_log, LAMBDA e : e.op = "search")

IsMember(names, entity_name) == \E i \in 1..Len(names) : names[i] = entity_name

\* the result count by membership of the name in the profile lists
MemberResultCount(type, adaptive, entity_name) ==
    IF type = "topic" THEN TOPIC_RESULT_COUNT
    ELSE IF adaptive /\ IsMember(HIGH_PROFILE_ENTITIES, entity_name)
         THEN HIGH_PROFILE_RESULT_COUNT
    ELSE IF adaptive /\ IsMember(LOW_PROFILE_ENTITIES, entity_name)
         THEN LOW_PROFILE_RESULT_COUNT
    ELSE DEFAULT_RESULT_COUNT

\* C19: every search is made over the week; its result count is the
\* high-profile count when adaptive is on, the kind is not topic and the name
\* is a member of the high-profile list, the low-profile count likewise for
\* the low-profile list, the default count for any other client or competitor,
\* and the topic count for every topic.
C19_ParametersByMembership ==
    \A j \in 1..Len(BatchSearches) :
        /\ BatchSearches[j].time_filter = "w"
        /\ BatchSearches[j].max_results =
               MemberResultCount(b_type, b_adaptive, get_entity_name(b_list[j]))

\* the query an entity is configured with, empty when none is set
ConfiguredQuery(entity_tuple) == entity_tuple[Len(entity_tuple)]

Quoted(name) == <<"\"">> \o name \o <<"\"">>

\* C20: the query of a search is the configured query of the entity when one
\* is set and otherwise its exact name in double quotes; an entity without a
\* query is searched all the same.
C20_QueryOrQuotedName ==
    /\ \A j \in 1..Len(BatchSearches) :
           BatchSearches[j].query =
               IF ConfiguredQuery(b_list[j]) # <<>> THEN ConfiguredQuery(b_list[j])
               ELSE Quoted(get_entity_name(b_list[j]))
    /\ BatchReturned => Len(BatchSearches) = Len(b_list)

(***************************************************************************)
(* Claims about the table convert_to_dataframe builds                      *)
(***************************************************************************)
\* the list just collected has been converted: the table of the list stands
\* next to the results it was built from
ListConverted == DictHas(dataframes, r_kind)

\* the date of an article as a row may carry it: the string, or its timestamp
SameDate(cell, date) == cell = Str(date) \/ (DateParses(date) /\ cell = ParseDate(date))

\* a row of the table carries the article as the search client returned it
RowOfArticle(row, entity, article) ==
    /\ row["client"] = Str(entity)
    /\ row["url"] = Str(article["href"])
    /\ row["title"] = Str(article["title"])
    /\ row["source"] = Str(article["source"])
    /\ row["excerpt"] = Str(article["body"])
    /\ SameDate(row["date"], article["date"])

\* C21: every article the search client returned and the filter kept has a
\* row in the table whose url is the URL of the article as the client
\* returned it, and whose title, date, source and excerpt are those of the
\* article.
C21_RowCarriesArticle ==
    ListConverted =>
        \A e \in DOMAIN all_news.val :
            LET kept == FilterEntity(e, all_news.val[e], MinRelevance)
                df == dataframes.val[r_kind]
            IN \A i \in 1..Len(kept) :
                   \E j \in 1..Len(df.rows) : RowOfArticle(df.rows[j], e, kept[i])

\* the rows of the table of the list just converted
ConvertedRows == dataframes.val[r_kind].rows

\* C22's first half: a kept article whose date does not parse has a row with
\* the raw date string
RawDateKept ==
    \A e \in DOMAIN all_news.val :
        LET kept == FilterEntity(e, all_news.val[e], MinRelevance)
        IN \A i \in 1..Len(kept) :
               ~DateParses(kept[i]["date"]) =>
                   \E j \in 1..Len(ConvertedRows) :
                       /\ ConvertedRows[j]["client"] = Str(e)
                       /\ ConvertedRows[j]["title"] = Str(kept[i]["title"])
                       /\ ConvertedRows[j]["date"] = Str(kept[i]["date"])

\* C22's second half: no row is left with a date string that parses
ParseableNormalized ==
    \A j \in 1..Len(ConvertedRows) :
        ConvertedRows[j]["date"].t = "str" => ~DateParses(ConvertedRows[j]["date"].v)

\* C22: in convert_to_dataframe a row whose date cannot be parsed keeps its raw
\* date string, and every other row of the table, whose date parses, carries
\* the normalized timestamp.
C22_DatesNormalizedRowwise ==
    ListConverted => (RawDateKept /\ ParseableNormalized)

(***************************************************************************)
(* convert_to_dataframe applied to a dict of search results                *)
(***************************************************************************)
MaxTableArticles == 3

\* the entities the results are stored under
TableEntities == { <<"U","S","A","A">>, <<"A","b">> }

TableArticle(title, body, date) ==
    [title |-> title, body |-> body, href |-> <<"u">>, source |-> <<"s">>, date |-> date]

\* the articles of the results: the name in the title with a date, no date or a
\* date that does not parse, and the name in the excerpt only
TableArticles ==
    { TableArticle(<<"U","S","A","A">>, <<"x">>, d) :
        d \in { <<"1","Z">>, <<"2","Z">>, <<>>, <<"?">> } }
    \cup { TableArticle(<<"x">>, <<"U","S","A","A">>, <<"2","Z">>) }

TotalArticles(news_dict) ==
    LET RECURSIVE Sum(_)
        Sum(keys) == IF keys = <<>> THEN 0 ELSE Len(news_dict.val[Head(keys)]) + Sum(Tail(keys))
    IN Sum(news_dict.keys)

TableInit ==
    /\ r_pc = "build" /\ r_mode = "none" /\ r_target = "none" /\ r_adaptive = FALSE
    /\ r_kind = "client" /\ r_idx = 0
    /\ all_news = EmptyDict /\ dataframes = EmptyDict
    /\ r_log = <<>> /\ r_raw = {}
    /\ r_prev = EmptyFrame /\ r_before = EmptyFrame /\ r_combined = EmptyFrame
    /\ r_dedups = 0 /\ r_outcome = "none"
    /\ daily_combined = NoFile /\ files = {}
    /\ SearchIdle /\ ScoreIdle /\ FilterIdle /\ BatchIdle /\ MonitorIdle

\* one more article in the results of an entity
AddResult ==
    /\ r_pc = "build"
    /\ TotalArticles(all_news) < MaxTableArticles
    /\ \E e \in TableEntities, a \in TableArticles :
        all_news' = DictSet(all_news, e, Append(Get(all_news.val, e, <<>>), a))
    /\ UNCHANGED <<r_pc, r_mode, r_target, r_adaptive, r_kind, r_idx, dataframes,
                   r_log, r_raw, r_prev, r_before, r_combined, r_dedups, r_outcome,
                   daily_combined, files, searchVars, scoreVars, filterVars, batchVars, monitorVars>>

\* news_df = convert_to_dataframe(all_news)
Convert ==
    /\ r_pc = "build"
    /\ dataframes' = DictSet(dataframes, r_kind, convert_to_dataframe(all_news))
    /\ r_pc' = "converted"
    /\ UNCHANGED <<r_mode, r_target, r_adaptive, r_kind, r_idx, all_news,
                   r_log, r_raw, r_prev, r_before, r_combined, r_dedups, r_outcome,
                   daily_combined, files, searchVars, scoreVars, filterVars, batchVars, monitorVars>>

TableNext == AddResult \/ Convert

SpecTable == TableInit /\ [][TableNext]_vars

\* the place of a date in time: a timestamp or a date string that parses by its
\* day, no date before every day
DateRank(cell) ==
    IF cell.t = "ts" THEN cell.v[1] + 1
    ELSE IF cell.t = "str" /\ cell.v # <<>> THEN DigitValue(cell.v[1]) + 1
    ELSE 0

HasDateRank(cell) == cell.t \in {"ts", "nat"} \/ (cell.t = "str" /\ DateParses(cell.v))

HasRowOf(df, entity, article) ==
    \E j \in 1..Len(df.rows) :
        /\ df.rows[j]["client"] = Str(entity)
        /\ df.rows[j]["title"] = Str(article["title"])
        /\ df.rows[j]["excerpt"] = Str(article["body"])

AllKeptInTable ==
    \A e \in DOMAIN all_news.val :
        LET kept == FilterEntity(e, all_news.val[e], MinRelevance)
        IN \A i \in 1..Len(kept) : HasRowOf(dataframes.val[r_kind], e, kept[i])

\* the last event of the run is the load of the checkpoint, after the searches
\* of every client and every competitor
LoadAfterCollection ==
    /\ r_log # <<>>
    /\ r_log[Len(r_log)].op = "load"
    /\ \A i \in 1..(Len(r_log) - 1) : r_log[i].op # "load"
    /\ SearchedNames("client") = DisplayNames("client")
    /\ SearchedNames("competitor") = DisplayNames("competitor")

\* C24: the duplicates are removed in daily mode only.  In a weekly run no
\* dedup is made and every article the filter kept is in the table of its list,
\* whatever table is persisted; in a daily run remove_duplicate_news is applied
\* at most once, after the collection of the clients and the competitors, and
\* the table persisted is the one it returned.
C24_DedupDailyOnly ==
    /\ r_mode = "weekly" => (r_dedups = 0 /\ (ListConverted => AllKeptInTable))
    /\ r_mode = "daily" =>
          /\ r_dedups <= 1
          /\ r_dedups = 1 =>
                /\ Finished
                /\ LoadAfterCollection
                /\ daily_combined = FileOf(r_combined)

\* C24's case: a weekly run made after a daily run persisted its combined
\* table, in which an article of that table is found again and kept
C24_Witness ==
    /\ r_mode = "weekly" /\ Finished /\ ListConverted
    /\ daily_combined.exists
    /\ \E j \in 1..Len(ConvertedRows), k \in 1..Len(daily_combined.rows) :
          /\ daily_combined.rows[k]["title"] = ConvertedRows[j]["title"].v
          /\ daily_combined.rows[k]["client"] = ConvertedRows[j]["client"].v

\* C25: across daily runs of which each loads the combined table the run
\* before it persisted, an article of the final output of one run is in the
\* final output of no later run: no row of the final table of a run has the
\* title and the URL of a row of the table it loaded.
C25_NeverAgain ==
    (Finished /\ r_mode = "daily" /\ Loaded("loaded")) =>
        \A i \in 1..Len(r_combined.rows) : ~InCheckpoint(r_combined.rows[i])

(***************************************************************************)
(* Claims about the runs over several entity lists                         *)
(***************************************************************************)
\* C26: no two searches of a run are made without a pacing sleep between
\* them, the last search of a list and the first search of the next list
\* included.
C26_SleepBetweenLists ==
    \A i \in 1..(Len(r_log) - 1) :
        ~(r_log[i].op = "search" /\ r_log[i + 1].op = "search")

\* every row of the table of a list is a row of the combined table of the run
InCombined(kind) ==
    \A j \in 1..Len(dataframes.val[kind].rows) :
        \E k \in 1..Len(r_before.rows) : r_before.rows[k] = dataframes.val[kind].rows[j]

\* C27: in a daily run whose client list was collected, every competitor is
\* searched, also when no client search returned an article; and once the
\* competitor list is collected too, the kept articles of both lists are in
\* the combined table, also when one of the lists has none.
C27_OneEmptyList ==
    (Finished /\ r_mode = "daily" /\ DictHas(dataframes, "client")) =>
        /\ SearchedNames("competitor") = DisplayNames("competitor")
        /\ DictHas(dataframes, "competitor") =>
              (InCombined("client") /\ InCombined("competitor"))

(***************************************************************************)
(* Claims about what remove_duplicate_news does to its arguments            *)
(***************************************************************************)
\* the tables of the caller after the call; r_before and r_prev are the same
\* tables before it
CurrentAfter == dataframes.val["current"]
PreviousAfter == dataframes.val["previous"]

HasArticleId(df) ==
    /\ HasColumn(df, "article_id")
    /\ \A i \in 1..Len(df.rows) : "article_id" \in DOMAIN df.rows[i]

\* the table with the identity column taken away again
WithoutArticleId(df) ==
    [columns |-> SelectSeq(df.columns, LAMBDA c : c # "article_id"),
     rows |-> [i \in 1..Len(df.rows) |->
                  [c \in (DOMAIN df.rows[i]) \ {"article_id"} |-> df.rows[i][c]]]]

\* C28: called with two non-empty tables, remove_duplicate_news returns a table
\* with exactly the columns current had before the call, and leaves both
\* tables of the caller with an added identity column and otherwise as they
\* were; called with an empty current or an empty previous it changes neither.
C28_InputsMarked ==
    Deduped =>
        IF IsEmpty(r_before) \/ IsEmpty(r_prev)
        THEN CurrentAfter = r_before /\ PreviousAfter = r_prev
        ELSE /\ r_combined.columns = r_before.columns
             /\ ~HasColumn(r_combined, "article_id")
             /\ HasArticleId(CurrentAfter) /\ HasArticleId(PreviousAfter)
             /\ WithoutArticleId(CurrentAfter) = r_before
             /\ WithoutArticleId(PreviousAfter) = r_prev

\* C28's case: a call with two tables of one row each of which the row of
\* current is a duplicate: the returned table has no row and no identity
\* column, both inputs have it
C28_Witness ==
    /\ Deduped
    /\ Len(r_before.rows) = 1 /\ Len(r_prev.rows) = 1
    /\ r_combined.rows = <<>> /\ r_combined.columns = FrameColumns
    /\ HasArticleId(CurrentAfter) /\ HasArticleId(PreviousAfter)
    /\ CurrentAfter.rows[1]["article_id"] = PreviousAfter.rows[1]["article_id"]

(***************************************************************************)
(* Claims about the list search_news returns                               *)
(***************************************************************************)
\* C29: search_news returns at most max_results articles, all of them from
\* the response of the last attempt, in the order of that response: nothing
\* of an earlier attempt is in the list.
C29_OneResponse ==
    Returned =>
        /\ Len(results) <= max_results
        /\ attempt = Len(calls)
        /\ \A i \in 1..Len(results) : results[i] = <<attempt, i>>
        /\ results # <<>> => calls[Len(calls)].kind = "ok"

\* C29's case: two failed attempts, then a response with more articles than
\* asked for, of which the first max_results are returned
C29_Witness ==
    /\ Returned
    /\ attempt = 3
    /\ calls[1].kind # "ok" /\ calls[2].kind # "ok" /\ calls[3].kind = "ok"
    /\ Len(results) = max_results
    /\ results[1] = <<3, 1>>

(***************************************************************************)
(* monitor_incrementally: scripts/monitor_incremental.py.  completed_sites  *)
(* is kept as the set of its URLs: the code reads it by membership and      *)
(* writes it as list(set(completed_sites)).                                 *)
(***************************************************************************)
MaxWebsites == 3
MaxResets == 1

\* website i of config/websites.json: the URLs are pairwise different
Website(i) == [name |-> <<"S", DigitChar(i)>>, url |-> <<"u", DigitChar(i)>>]

WebsiteConfigs == { [i \in 1..n |-> Website(i)] : n \in 0..MaxWebsites }

Urls(websites) == { websites[i].url : i \in 1..Len(websites) }

\* load_checkpoint()["completed_sites"]: nothing when there is no file
load_checkpoint == IF m_file.exists THEN m_file.completed_sites ELSE {}

\* mutant: the checkpoint is not consulted
get_remaining_websites_all(websites, completed_sites) == websites

\* [site for site in websites if site.get('url', '') not in completed_sites]
get_remaining_websites(websites, completed_sites) ==
    LET NotCompleted(site) == site.url \notin completed_sites
    IN SelectSeq(websites, NotCompleted)

\* remaining[:max_sites] under `if max_sites:` (0 stands for None and for 0)
LimitSites(remaining, max_sites) ==
    IF max_sites # 0 THEN SubSeq(remaining, 1, Min(max_sites, Len(remaining)))
    ELSE remaining

NeverMonitored == [u \in Urls(m_sites) |-> 0]

\* save_checkpoint(checkpoint)
save_checkpoint(completed_sites) == [exists |-> TRUE, completed_sites |-> completed_sites]

MonitorInit ==
    /\ m_pc = "idle"
    /\ m_sites \in WebsiteConfigs
    /\ m_file = NoCheckpoint
    /\ m_completed = {} /\ m_remaining = <<>> /\ m_i = 0
    /\ m_monitored = NeverMonitored /\ m_last = <<>> /\ m_resets = 0
    /\ SearchIdle /\ ScoreIdle /\ FilterIdle /\ RunIdle /\ BatchIdle

\* monitor_incrementally(max_sites, delay, continue_from_checkpoint) up to its
\* loop: the configuration and the checkpoint loaded, remaining computed
MonitorStart ==
    /\ m_pc = "idle"
    /\ \E max_sites \in 0..MaxWebsites, continue_from_checkpoint \in BOOLEAN :
        /\ continue_from_checkpoint \/ m_resets < MaxResets
        /\ IF m_sites = <<>>
           THEN UNCHANGED monitorVars
           ELSE LET completed_sites == IF continue_from_checkpoint THEN load_checkpoint ELSE {}
                IN /\ m_completed' = completed_sites
                   /\ m_remaining' = LimitSites(get_remaining_websites(m_sites, completed_sites),
                                                max_sites)
                   /\ m_i' = 1
                   /\ m_pc' = "loop"
                   /\ IF continue_from_checkpoint
                      THEN UNCHANGED <<m_monitored, m_last, m_resets>>
                      ELSE /\ m_monitored' = NeverMonitored
                           /\ m_last' = <<>>
                           /\ m_resets' = m_resets + 1
                   /\ UNCHANGED <<m_sites, m_file>>
    /\ UNCHANGED <<searchVars, scoreVars, filterVars, runVars, batchVars>>

\* one turn of the loop: monitor_single_website, which returns also when the
\* monitoring raised, then the URL appended and the checkpoint saved
MonitorSite ==
    /\ m_pc = "loop"
    /\ m_i <= Len(m_remaining)
    /\ \E succeeded \in BOOLEAN :
        LET site_url == m_remaining[m_i].url
        IN /\ m_monitored' = [m_monitored EXCEPT ![site_url] = Min(@ + 1, 2)]
           /\ m_last' = <<site_url, succeeded>>
           /\ m_completed' = m_completed \cup {site_url}
           /\ m_file' = save_checkpoint(m_completed \cup {site_url})
    /\ m_i' = m_i + 1
    /\ UNCHANGED <<m_pc, m_sites, m_remaining, m_resets,
                   searchVars, scoreVars, filterVars, runVars, batchVars>>

\* the process is killed between two websites, during time.sleep(delay)
MonitorKill ==
    /\ m_pc = "loop"
    /\ m_i > 1 /\ m_i <= Len(m_remaining)
    /\ m_pc' = "idle"
    /\ UNCHANGED <<m_sites, m_file, m_completed, m_remaining, m_i, m_monitored, m_last,
                   m_resets, searchVars, scoreVars, filterVars, runVars, batchVars>>

\* after the loop: last_run_completed set, the checkpoint saved, the statistics
\* returned
MonitorFinish ==
    /\ m_pc = "loop"
    /\ m_i > Len(m_remaining)
    /\ m_file' = save_checkpoint(m_completed)
    /\ m_pc' = "idle"
    /\ UNCHANGED <<m_sites, m_completed, m_remaining, m_i, m_monitored, m_last,
                   m_resets, searchVars, scoreVars, filterVars, runVars, batchVars>>

\* clear_checkpoint()
ClearCheckpoint ==
    /\ m_pc = "idle"
    /\ m_file.exists
    /\ m_resets < MaxResets
    /\ m_file' = NoCheckpoint
    /\ m_monitored' = NeverMonitored
    /\ m_last' = <<>>
    /\ m_resets' = m_resets + 1
    /\ UNCHANGED <<m_pc, m_sites, m_completed, m_remaining, m_i,
                   searchVars, scoreVars, filterVars, runVars, batchVars>>

MonitorNext ==
    \/ MonitorStart \/ MonitorSite \/ MonitorKill \/ MonitorFinish \/ ClearCheckpoint

\* runs are repeated, and a run that is not killed goes on
SpecMonitor ==
    /\ MonitorInit /\ [][MonitorNext]_vars
    /\ WF_vars(MonitorStart) /\ WF_vars(MonitorSite) /\ WF_vars(MonitorFinish)

(***************************************************************************)
(* Claims about the incremental monitoring                                 *)
(***************************************************************************)
NoneTwice == \A u \in DOMAIN m_monitored : m_monitored[u] <= 1

LastInCheckpoint == m_last # <<>> => (m_file.exists /\ m_last[1] \in m_file.completed_sites)

AllProcessed == m_file.exists /\ Urls(m_sites) \subseteq m_file.completed_sites

\* C30: over runs of monitor_incrementally that continue from the checkpoint,
\* limited by max_sites or killed between two websites, no website is
\* monitored twice until the checkpoint is cleared; the checkpoint saved after
\* a website holds its URL, whether the monitoring succeeded or failed; and
\* repeating the runs, every configured website is processed in the end.
C30_IncrementalProgress ==
    /\ [](NoneTwice /\ LastInCheckpoint)
    /\ <>(m_sites # <<>> => AllProcessed)

\* C30's case: a run that continued from a checkpoint holding two of the three
\* websites has processed the third, whose monitoring failed
C30_Witness ==
    /\ m_pc = "loop" /\ m_i = 2
    /\ Len(m_sites) = 3 /\ Len(m_remaining) = 1
    /\ m_last = <<m_remaining[1].url, FALSE>>
    /\ AllProcessed
    /\ \A u \in DOMAIN m_monitored : m_monitored[u] = 1

====
